---- MODULE Spec2Model ----
(***************************************************************************)
(* Model of the state-reconciliation core of terraform-provider-cronitor:  *)
(* the order-insensitive slice normaliser (fixSliceOrder), the mappers     *)
(* between the declared (Terraform) shape and the wire shape, the typed    *)
(* HTTP client (pkg/cronitor) and the resource handlers built on them.     *)
(***************************************************************************)
EXTENDS Integers, Sequences, FiniteSets, TLC

VARIABLES
    fxCorrect,      \* fixSliceOrder: the `correct` argument (declared slice)
    fxIncorrect,    \* fixSliceOrder: the `incorrect` argument (pointer to the observed slice)
    fxOut,          \* fixSliceOrder: outcome of the call (panic flag, *incorrect afterwards)
    fxPc,           \* "ready" before the call, "done" after it
    mpKind,         \* mapper round trip: "http", "heartbeat" or "list"
    mpData,         \* mapper round trip: the declared model
    mpReq,          \* mapper round trip: the wire struct the mapper built
    mpOut,          \* mapper round trip: the model mapped back from the wire
    mpPc,           \* "ready" before the round trip, "done" after it
    resKind,        \* the resource kind this run manages
    svc,            \* the service: the set of objects it holds
    lastOp,         \* the last operation called
    lastArg,        \* the argument the last operation was called with
    lastOut,        \* its outcome: error, value, exchanges, caller's struct afterwards
    tfState,        \* the Terraform state recorded for the resource
    declared,       \* the last declared model that was applied successfully
    calls,          \* concurrent use: for each caller, the call it has in progress
    client          \* concurrent use: the fields of the shared *Client

fxVars == <<fxCorrect, fxIncorrect, fxOut, fxPc>>

mpVars == <<mpKind, mpData, mpReq, mpOut, mpPc>>

clVars == <<resKind, svc, lastOp, lastArg, lastOut>>

tfVars == <<tfState, declared>>

ccVars == <<calls, client>>

vars == <<fxVars, mpVars, clVars, tfVars, ccVars>>

(***************************************************************************)
(* Go slices.  A slice is either nil (absent) or present with elements;    *)
(* a nil slice has length 0.                                               *)
(***************************************************************************)
MaxLen == 3

Elem == {"a", "b", "c"}

SeqsUpTo(S, n) == UNION {[1..k -> S] : k \in 0..n}

NilSlice == [nil |-> TRUE, elems |-> <<>>]

MkSlice(s) == [nil |-> FALSE, elems |-> s]

Slices == {NilSlice} \cup {MkSlice(s) : s \in SeqsUpTo(Elem, MaxLen)}

SliceLen(s) == Len(s.elems)

\* A *[]T argument: a nil pointer, or a pointer to a slice variable.
NilPtr == [isNilPtr |-> TRUE, val |-> NilSlice]

PtrTo(s) == [isNilPtr |-> FALSE, val |-> s]

\* slices.Contains
Contains(s, e) == \E i \in 1..Len(s) : s[i] = e

Range(s) == {s[i] : i \in 1..Len(s)}

\* The earlier variant: copy(correct, incorrect) overwrites the local
\* `correct`, so *incorrect is never rewritten.
fixSliceOrderNoReorder(correct, incorrect) ==
    [panic |-> incorrect.isNilPtr, val |-> incorrect.val]

\* Without the length guard.
fixSliceOrderNoLenCheck(correct, incorrect) ==
    IF incorrect.isNilPtr THEN [panic |-> TRUE, val |-> incorrect.val]
    ELSE IF correct.nil THEN [panic |-> FALSE, val |-> NilSlice]
    ELSE IF \E i \in 1..SliceLen(incorrect.val) :
                ~Contains(correct.elems, incorrect.val.elems[i])
         THEN [panic |-> FALSE, val |-> incorrect.val]
    ELSE [panic |-> FALSE, val |-> MkSlice(correct.elems)]

\* Without the membership loop.
fixSliceOrderNoContains(correct, incorrect) ==
    IF incorrect.isNilPtr THEN [panic |-> TRUE, val |-> incorrect.val]
    ELSE IF SliceLen(correct) # SliceLen(incorrect.val)
         THEN [panic |-> FALSE, val |-> incorrect.val]
    ELSE IF correct.nil THEN [panic |-> FALSE, val |-> NilSlice]
    ELSE [panic |-> FALSE, val |-> MkSlice(correct.elems)]

\* nil-ness of `correct` copied even when the lengths differ.
fixSliceOrderNilFirst(correct, incorrect) ==
    IF incorrect.isNilPtr THEN [panic |-> TRUE, val |-> incorrect.val]
    ELSE IF correct.nil THEN [panic |-> FALSE, val |-> NilSlice]
    ELSE IF SliceLen(correct) # SliceLen(incorrect.val)
         THEN [panic |-> FALSE, val |-> incorrect.val]
    ELSE IF \E i \in 1..SliceLen(incorrect.val) :
                ~Contains(correct.elems, incorrect.val.elems[i])
         THEN [panic |-> FALSE, val |-> incorrect.val]
    ELSE [panic |-> FALSE, val |-> MkSlice(correct.elems)]

\* fixSliceOrder[T comparable](correct []T, incorrect *[]T): the value of
\* *incorrect after the call, or a panic when the pointer itself is nil
\* (the nil test is on the pointer, and its branch stores through it).
fixSliceOrder(correct, incorrect) ==
    IF incorrect.isNilPtr THEN [panic |-> TRUE, val |-> incorrect.val]
    ELSE IF SliceLen(correct) # SliceLen(incorrect.val)
         THEN [panic |-> FALSE, val |-> incorrect.val]
    ELSE IF correct.nil THEN [panic |-> FALSE, val |-> NilSlice]
    ELSE IF \E i \in 1..SliceLen(incorrect.val) :
                ~Contains(correct.elems, incorrect.val.elems[i])
         THEN [panic |-> FALSE, val |-> incorrect.val]
    ELSE [panic |-> FALSE, val |-> MkSlice(correct.elems)]

NoOut == [panic |-> FALSE, val |-> NilSlice]

\* The variables of the mapper round trip, unused.
MapIdle ==
    /\ mpKind = "none"
    /\ mpData = <<>>
    /\ mpReq = <<>>
    /\ mpOut = <<>>
    /\ mpPc = "idle"

\* The variables of concurrent use, unused.
ConcIdle ==
    /\ calls = <<>>
    /\ client = <<>>

\* The variables of the client and of the resource handlers, unused.
SysIdle ==
    /\ resKind = "none"
    /\ svc = {}
    /\ lastOp = "none"
    /\ lastArg = <<>>
    /\ lastOut = <<>>
    /\ tfState = <<>>
    /\ declared = <<>>

InitFix ==
    /\ fxCorrect \in Slices
    /\ fxIncorrect \in {NilPtr} \cup {PtrTo(s) : s \in Slices}
    /\ fxOut = NoOut
    /\ fxPc = "ready"
    /\ MapIdle
    /\ SysIdle
    /\ ConcIdle

\* One call fixSliceOrder(fxCorrect, fxIncorrect).
FixCall ==
    /\ fxPc = "ready"
    /\ fxOut' = fixSliceOrder(fxCorrect, fxIncorrect)
    /\ fxPc' = "done"
    /\ UNCHANGED <<fxCorrect, fxIncorrect, mpVars, clVars, tfVars, ccVars>>

NextFix == FixCall

SpecFix == InitFix /\ [][NextFix]_vars

\* The call returned normally on a non-nil pointer.
FixReturned == fxPc = "done" /\ ~fxIncorrect.isNilPtr

Unique(s) == \A i, j \in 1..Len(s) : s[i] = s[j] => i = j

(***************************************************************************)
(* C2: for declared and observed of equal length holding the same set of   *)
(* unique elements, fixSliceOrder leaves observed equal to declared,       *)
(* element for element in declared's order.                                *)
(***************************************************************************)
C2_SameSetYieldsDeclared ==
    (/\ FixReturned
     /\ SliceLen(fxCorrect) = SliceLen(fxIncorrect.val)
     /\ Unique(fxCorrect.elems) /\ Unique(fxIncorrect.val.elems)
     /\ Range(fxCorrect.elems) = Range(fxIncorrect.val.elems))
    => (~fxOut.panic /\ fxOut.val.elems = fxCorrect.elems)

C2_Witness ==
    /\ FixReturned
    /\ fxCorrect = MkSlice(<<"a", "b", "c">>)
    /\ fxIncorrect.val = MkSlice(<<"c", "a", "b">>)
    /\ fxOut.val = MkSlice(<<"a", "b", "c">>)

(***************************************************************************)
(* C3: when len(declared) # len(observed), fixSliceOrder leaves observed   *)
(* unchanged: same elements, same order, same absent-or-empty status.      *)
(***************************************************************************)
C3_LengthMismatchPassthrough ==
    (FixReturned /\ SliceLen(fxCorrect) # SliceLen(fxIncorrect.val))
    => (~fxOut.panic /\ fxOut.val = fxIncorrect.val)

C3_Witness ==
    /\ FixReturned
    /\ fxCorrect = MkSlice(<<"a", "b">>)
    /\ fxIncorrect.val = MkSlice(<<"a">>)
    /\ fxOut.val = MkSlice(<<"a">>)

(***************************************************************************)
(* C4: for equal-length declared and observed where observed holds an      *)
(* element that is not a member of declared, fixSliceOrder leaves observed *)
(* unchanged.                                                              *)
(***************************************************************************)
C4_ContentMismatchPassthrough ==
    (/\ FixReturned
     /\ SliceLen(fxCorrect) = SliceLen(fxIncorrect.val)
     /\ \E e \in Range(fxIncorrect.val.elems) : e \notin Range(fxCorrect.elems))
    => (~fxOut.panic /\ fxOut.val = fxIncorrect.val)

C4_Witness ==
    /\ FixReturned
    /\ fxCorrect = MkSlice(<<"a", "b">>)
    /\ fxIncorrect.val = MkSlice(<<"b", "c">>)
    /\ fxOut.val = MkSlice(<<"b", "c">>)

(***************************************************************************)
(* C5 as stated: if declared or observed is the absent (nil) marker,       *)
(* fixSliceOrder leaves observed exactly as it was (an empty-but-present   *)
(* observed stays present, an absent observed stays absent).               *)
(***************************************************************************)
C5_NilLeavesObservedUntouched ==
    (FixReturned /\ (fxCorrect.nil \/ fxIncorrect.val.nil))
    => fxOut.val = fxIncorrect.val

(***************************************************************************)
(* C5 amended: if declared or observed is nil, fixSliceOrder never changes *)
(* observed's elements; observed is left exactly as it was when the        *)
(* lengths differ, and when both have length zero observed takes           *)
(* declared's absent-or-empty status.                                      *)
(***************************************************************************)
C5_NilTakesDeclaredStatus ==
    (FixReturned /\ (fxCorrect.nil \/ fxIncorrect.val.nil))
    => /\ ~fxOut.panic
       /\ fxOut.val.elems = fxIncorrect.val.elems
       /\ IF SliceLen(fxCorrect) # SliceLen(fxIncorrect.val)
          THEN fxOut.val = fxIncorrect.val
          ELSE fxOut.val.nil = fxCorrect.nil

C5_Witness ==
    /\ FixReturned
    /\ fxCorrect = NilSlice
    /\ fxIncorrect.val = MkSlice(<<>>)
    /\ fxOut.val = NilSlice

(***************************************************************************)
(* Terraform framework values (types.String, types.Int32, types.Bool,      *)
(* types.List, types.Map): null or a value.  ValueString / ValueInt32 /    *)
(* ValueBool of a null value is the zero value, kept in field v.           *)
(***************************************************************************)
StringNull == [null |-> TRUE, v |-> ""]

StringValue(s) == [null |-> FALSE, v |-> s]

Int32Null == [null |-> TRUE, v |-> 0]

Int32Value(n) == [null |-> FALSE, v |-> n]

BoolNull == [null |-> TRUE, v |-> FALSE]

BoolValue(b) == [null |-> FALSE, v |-> b]

ListNull == [null |-> TRUE, elems |-> <<>>]

ListValue(s) == [null |-> FALSE, elems |-> s]

\* A map is the set of its <<key, value>> pairs.
MapNull == [null |-> TRUE, kv |-> {}]

MapValue(m) == [null |-> FALSE, kv |-> m]

\* Go pointers to scalars (*int, *string): nil or a pointee.
NilInt == [nil |-> TRUE, v |-> 0]

PtrInt(n) == [nil |-> FALSE, v |-> n]

NilString == [nil |-> TRUE, v |-> ""]

PtrString(s) == [nil |-> FALSE, v |-> s]

\* processSlice / stringSlice: an empty or nil slice becomes a null list.
stringSlice(in) ==
    IF SliceLen(in) = 0 THEN ListNull ELSE ListValue(in.elems)

\* toStringSlice: out := []string{} is never nil; a null list has no elements.
toStringSlice(in) == MkSlice(in.elems)

\* toStringMap: always a non-nil map.
toStringMap(in) == in.kv

\* cronitor.Request and a nil *Request.
ZeroRequest ==
    [URL |-> "", Method |-> "", Headers |-> {}, Cookies |-> {}, Body |-> "",
     Regions |-> NilSlice, TimeoutSeconds |-> 0,
     FollowRedirects |-> FALSE, VerifySsl |-> FALSE]

NilRequest == [nil |-> TRUE, v |-> ZeroRequest]

PtrRequest(r) == [nil |-> FALSE, v |-> r]

\* The zero cronitor.Monitor (mon := &Monitor{}).
ZeroMonitor ==
    [Name |-> "", Assertions |-> NilSlice, Disabled |-> FALSE,
     FailureTolerance |-> NilInt, GraceSeconds |-> NilInt, Group |-> NilString,
     Key |-> NilString, Notify |-> NilSlice, Paused |-> FALSE, Platform |-> "",
     RealertInterval |-> "", Request |-> NilRequest, Schedule |-> "",
     ScheduleTolerance |-> NilInt, Tags |-> NilSlice, Timezone |-> NilString,
     Type |-> "", Environments |-> NilSlice]

\* The zero BaseMonitorModel fields: every framework value is null.
ZeroModel ==
    [Key |-> StringNull, Name |-> StringNull, Disabled |-> BoolNull,
     Paused |-> BoolNull, Schedule |-> StringNull, Notify |-> ListNull,
     ScheduleTolerance |-> Int32Null, FailureTolerance |-> Int32Null,
     GraceSeconds |-> Int32Null, RealertInterval |-> StringNull,
     Timezone |-> StringNull, Tags |-> ListNull, Environments |-> ListNull,
     Group |-> StringNull,
     Url |-> StringNull, Headers |-> MapNull, Cookies |-> MapNull,
     Body |-> StringNull, Method |-> StringNull, TimeoutSeconds |-> Int32Null,
     Regions |-> ListNull, FollowRedirects |-> BoolNull, VerifySsl |-> BoolNull,
     Assertions |-> ListNull, TelemetryUrl |-> StringNull]

\* The optional fields both wire-to-model mappers copy only when non-nil.
withOptionals(out, m) ==
    [out EXCEPT
       !.Timezone = IF m.Timezone.nil THEN @ ELSE StringValue(m.Timezone.v),
       !.ScheduleTolerance =
           IF m.ScheduleTolerance.nil THEN @ ELSE Int32Value(m.ScheduleTolerance.v),
       !.FailureTolerance =
           IF m.FailureTolerance.nil THEN @ ELSE Int32Value(m.FailureTolerance.v),
       !.GraceSeconds =
           IF m.GraceSeconds.nil THEN @ ELSE Int32Value(m.GraceSeconds.v),
       !.Group = IF m.Group.nil THEN @ ELSE StringValue(m.Group.v)]

\* Dereferences toHttpMonitor makes unconditionally: *m.Key, m.Request.URL.
toHttpMonitorPanics(m) == m.Key.nil \/ m.Request.nil

\* toHttpMonitor(m *cronitor.Monitor) HttpMonitorModel
toHttpMonitor(m) ==
    withOptionals(
      [ZeroModel EXCEPT
         !.Key = StringValue(m.Key.v),
         !.Name = StringValue(m.Name),
         !.Disabled = BoolValue(m.Disabled),
         !.Paused = BoolValue(m.Paused),
         !.Schedule = StringValue(m.Schedule),
         !.Notify = stringSlice(m.Notify),
         !.Tags = stringSlice(m.Tags),
         !.RealertInterval = StringValue(m.RealertInterval),
         !.Environments = stringSlice(m.Environments),
         !.Assertions = stringSlice(m.Assertions),
         !.Url = StringValue(m.Request.v.URL),
         !.Method = StringValue(m.Request.v.Method),
         !.Headers = IF m.Request.v.Headers # {}
                     THEN MapValue(m.Request.v.Headers) ELSE MapNull,
         !.Cookies = IF m.Request.v.Cookies # {}
                     THEN MapValue(m.Request.v.Cookies) ELSE MapNull,
         !.Body = StringNull,
         !.TimeoutSeconds = Int32Value(m.Request.v.TimeoutSeconds),
         !.Regions = stringSlice(m.Request.v.Regions),
         !.FollowRedirects = BoolValue(m.Request.v.FollowRedirects),
         !.VerifySsl = BoolValue(m.Request.v.VerifySsl)],
      m)

\* Dereference toHeartbeatMonitor makes unconditionally: *m.Key.
toHeartbeatMonitorPanics(m) == m.Key.nil

\* toHeartbeatMonitor(m *cronitor.Monitor) HeartbeatMonitorModel
toHeartbeatMonitor(m) ==
    withOptionals(
      [ZeroModel EXCEPT
         !.Key = StringValue(m.Key.v),
         !.Name = StringValue(m.Name),
         !.Disabled = BoolValue(m.Disabled),
         !.Paused = BoolValue(m.Paused),
         !.Schedule = StringValue(m.Schedule),
         !.Notify = stringSlice(m.Notify),
         !.Tags = stringSlice(m.Tags),
         !.RealertInterval = StringValue(m.RealertInterval),
         !.Environments = stringSlice(m.Environments)],
      m)

\* The tail both model-to-wire mappers share: realert default, schedule,
\* the three tolerances (always a pointer to the ValueInt32), timezone, group.
withRequestTail(out, data) ==
    [out EXCEPT
       !.RealertInterval = IF @ = "" THEN "every 8 hours" ELSE @,
       !.Schedule = IF data.Schedule.v # "" THEN data.Schedule.v ELSE @,
       !.GraceSeconds = PtrInt(data.GraceSeconds.v),
       !.ScheduleTolerance = PtrInt(data.ScheduleTolerance.v),
       !.FailureTolerance = PtrInt(data.FailureTolerance.v),
       !.Timezone = IF data.Timezone.v # "" THEN PtrString(data.Timezone.v) ELSE @,
       !.Group = IF data.Group.v # "" THEN PtrString(data.Group.v) ELSE @]

\* httpToMonitorRequest(data HttpMonitorModel) *cronitor.Monitor
httpToMonitorRequest(data) ==
    withRequestTail(
      [ZeroMonitor EXCEPT
         !.Name = data.Name.v,
         !.Assertions = toStringSlice(data.Assertions),
         !.Disabled = data.Disabled.v,
         !.Paused = data.Disabled.v,
         !.Notify = toStringSlice(data.Notify),
         !.Tags = toStringSlice(data.Tags),
         !.Environments = toStringSlice(data.Environments),
         !.Type = "check",
         !.Platform = "http",
         !.Request = PtrRequest(
            [URL |-> data.Url.v, Method |-> data.Method.v,
             Headers |-> toStringMap(data.Headers),
             Cookies |-> toStringMap(data.Cookies),
             Body |-> data.Body.v,
             Regions |-> toStringSlice(data.Regions),
             TimeoutSeconds |-> data.TimeoutSeconds.v,
             FollowRedirects |-> data.FollowRedirects.v,
             VerifySsl |-> data.VerifySsl.v])],
      data)

\* heartbeatToMonitorRequest(data HeartbeatMonitorModel) *cronitor.Monitor
heartbeatToMonitorRequest(data) ==
    withRequestTail(
      [ZeroMonitor EXCEPT
         !.Name = data.Name.v,
         !.Disabled = data.Disabled.v,
         !.Paused = data.Disabled.v,
         !.Notify = toStringSlice(data.Notify),
         !.Tags = toStringSlice(data.Tags),
         !.Environments = toStringSlice(data.Environments),
         !.Type = "heartbeat",
         !.Platform = "linux"],
      data)

\* cronitor.NotificationList and NotificationListModel.
toNotificationList(l) ==
    [Name |-> StringValue(l.Name), Key |-> StringValue(l.Key),
     Emails |-> stringSlice(l.Notifications.Emails),
     Slack |-> stringSlice(l.Notifications.Slack),
     Pagerduty |-> stringSlice(l.Notifications.Pagerduty),
     Phones |-> stringSlice(l.Notifications.Phones),
     Webhooks |-> stringSlice(l.Notifications.Webhooks)]

listToListRequest(data) ==
    [Name |-> data.Name.v, Key |-> data.Key.v,
     Notifications |->
       [Emails |-> toStringSlice(data.Emails),
        Slack |-> toStringSlice(data.Slack),
        Pagerduty |-> toStringSlice(data.Pagerduty),
        Phones |-> toStringSlice(data.Phones),
        Webhooks |-> toStringSlice(data.Webhooks)]]

(***************************************************************************)
(* encoding/json for the wire structs.  A JSON member is absent, null or   *)
(* a value; `omitempty` drops nil pointers, empty strings, empty slices    *)
(* and empty maps; Unmarshal leaves the zero value for absent and null.    *)
(***************************************************************************)
JAbsent == [k |-> "absent", elems |-> <<>>]

marshalSlice(s, omitempty) ==
    IF omitempty /\ SliceLen(s) = 0 THEN JAbsent
    ELSE IF s.nil THEN [k |-> "null", elems |-> <<>>]
    ELSE [k |-> "array", elems |-> s.elems]

unmarshalSlice(j) == IF j.k = "array" THEN MkSlice(j.elems) ELSE NilSlice

\* *int and *string with omitempty: only a nil pointer is dropped.
marshalPtr(p) == [k |-> IF p.nil THEN "absent" ELSE "value", v |-> p.v]

unmarshalInt(j) == IF j.k = "value" THEN PtrInt(j.v) ELSE NilInt

unmarshalString(j) == IF j.k = "value" THEN PtrString(j.v) ELSE NilString

marshalRequest(r) ==
    [url |-> r.URL, method |-> r.Method,
     headers |-> r.Headers, cookies |-> r.Cookies,   \* {} is omitted, and absent decodes to {}
     body |-> r.Body,                                \* "" is omitted, and absent decodes to ""
     regions |-> marshalSlice(r.Regions, TRUE),
     timeout_seconds |-> r.TimeoutSeconds,
     follow_redirects |-> r.FollowRedirects, verify_ssl |-> r.VerifySsl]

unmarshalRequest(j) ==
    [URL |-> j.url, Method |-> j.method, Headers |-> j.headers,
     Cookies |-> j.cookies, Body |-> j.body,
     Regions |-> unmarshalSlice(j.regions),
     TimeoutSeconds |-> j.timeout_seconds,
     FollowRedirects |-> j.follow_redirects, VerifySsl |-> j.verify_ssl]

\* json.Marshal(monitor)
marshalMonitor(m) ==
    [name |-> m.Name,
     assertions |-> marshalSlice(m.Assertions, FALSE),
     disabled |-> m.Disabled,
     failure_tolerance |-> marshalPtr(m.FailureTolerance),
     grace_seconds |-> marshalPtr(m.GraceSeconds),
     group |-> marshalPtr(m.Group),
     key |-> marshalPtr(m.Key),
     notify |-> marshalSlice(m.Notify, FALSE),
     paused |-> m.Paused,
     platform |-> m.Platform,
     realert_interval |-> m.RealertInterval,
     request |-> [k |-> IF m.Request.nil THEN "absent" ELSE "value",
                  v |-> marshalRequest(m.Request.v)],
     schedule |-> m.Schedule,
     schedule_tolerance |-> marshalPtr(m.ScheduleTolerance),
     tags |-> marshalSlice(m.Tags, FALSE),
     timezone |-> marshalPtr(m.Timezone),
     type |-> m.Type,
     environments |-> marshalSlice(m.Environments, FALSE)]

\* json.Unmarshal(body, &Monitor{})
unmarshalMonitor(j) ==
    [Name |-> j.name,
     Assertions |-> unmarshalSlice(j.assertions),
     Disabled |-> j.disabled,
     FailureTolerance |-> unmarshalInt(j.failure_tolerance),
     GraceSeconds |-> unmarshalInt(j.grace_seconds),
     Group |-> unmarshalString(j.group),
     Key |-> unmarshalString(j.key),
     Notify |-> unmarshalSlice(j.notify),
     Paused |-> j.paused,
     Platform |-> j.platform,
     RealertInterval |-> j.realert_interval,
     Request |-> IF j.request.k = "value"
                 THEN PtrRequest(unmarshalRequest(j.request.v)) ELSE NilRequest,
     Schedule |-> j.schedule,
     ScheduleTolerance |-> unmarshalInt(j.schedule_tolerance),
     Tags |-> unmarshalSlice(j.tags),
     Timezone |-> unmarshalString(j.timezone),
     Type |-> j.type,
     Environments |-> unmarshalSlice(j.environments)]

\* json.Marshal(list): every Notifications member is omitempty.
marshalList(l) ==
    [name |-> l.Name, key |-> l.Key,
     emails |-> marshalSlice(l.Notifications.Emails, TRUE),
     slack |-> marshalSlice(l.Notifications.Slack, TRUE),
     pagerduty |-> marshalSlice(l.Notifications.Pagerduty, TRUE),
     phones |-> marshalSlice(l.Notifications.Phones, TRUE),
     webhook |-> marshalSlice(l.Notifications.Webhooks, TRUE)]

unmarshalList(j) ==
    [Name |-> j.name, Key |-> j.key,
     Notifications |->
       [Emails |-> unmarshalSlice(j.emails),
        Slack |-> unmarshalSlice(j.slack),
        Pagerduty |-> unmarshalSlice(j.pagerduty),
        Phones |-> unmarshalSlice(j.phones),
        Webhooks |-> unmarshalSlice(j.webhook)]]

(***************************************************************************)
(* Mapper round trip: a declared model is mapped to the wire struct, the   *)
(* key of the resource is set on it (as Update does), it is encoded and    *)
(* decoded as JSON, and mapped back to a model.                            *)
(***************************************************************************)
OptInts == {Int32Null, Int32Value(0), Int32Value(2)}

DeclLists == {ListNull, ListValue(<<>>), ListValue(<<"default">>),
              ListValue(<<"ops", "dev">>)}

DeclRealerts == {StringNull, StringValue("every 8 hours"), StringValue("every 1 hour")}

\* Declared models of both monitor kinds.
MapBaseModels ==
    {[ZeroModel EXCEPT
        !.Key = StringValue("k1"),
        !.Name = StringValue("Example"),
        !.Schedule = StringValue("every 5 minutes"),
        !.Disabled = BoolValue(d), !.Paused = BoolValue(p),
        !.Notify = n, !.Tags = n, !.Environments = ListValue(<<"production">>),
        !.RealertInterval = r,
        !.FailureTolerance = ft, !.ScheduleTolerance = st,
        !.GraceSeconds = gs] :
       d \in BOOLEAN, p \in BOOLEAN, n \in DeclLists, r \in DeclRealerts,
       ft \in OptInts, st \in OptInts, gs \in {Int32Null, Int32Value(0)}}

MapHttpModels ==
    {[m EXCEPT
        !.Url = StringValue("https://example.com"),
        !.Method = StringValue("GET"),
        !.TimeoutSeconds = Int32Value(5),
        !.FollowRedirects = BoolValue(TRUE), !.VerifySsl = BoolValue(TRUE),
        !.Body = b, !.Regions = m.Notify] :
       m \in MapBaseModels, b \in {StringNull, StringValue("payload")}}

MapListModels ==
    {[Name |-> StringValue(<<"d", "e", "m", "o">>),
      Key |-> StringValue(<<"d", "e", "m", "o", "-", "1", "a", "2", "b", "3", "c">>),
      Emails |-> e, Slack |-> sl, Pagerduty |-> ListNull,
      Phones |-> ListNull, Webhooks |-> w] :
       e \in DeclLists, sl \in DeclLists, w \in DeclLists}

FixIdle ==
    /\ fxCorrect = NilSlice
    /\ fxIncorrect = NilPtr
    /\ fxOut = NoOut
    /\ fxPc = "idle"

InitMap ==
    /\ mpKind \in {"http", "heartbeat", "list"}
    /\ mpData \in CASE mpKind = "http" -> MapHttpModels
                    [] mpKind = "heartbeat" -> MapBaseModels
                    [] OTHER -> MapListModels
    /\ mpReq = <<>>
    /\ mpOut = <<>>
    /\ mpPc = "ready"
    /\ FixIdle
    /\ SysIdle
    /\ ConcIdle

\* The wire struct with the resource's key set on it.
withKey(req, key) == [req EXCEPT !.Key = PtrString(key)]

MapHttp ==
    /\ mpPc = "ready" /\ mpKind = "http"
    /\ LET req == withKey(httpToMonitorRequest(mpData), mpData.Key.v)
       IN /\ mpReq' = req
          /\ mpOut' = toHttpMonitor(unmarshalMonitor(marshalMonitor(req)))
    /\ mpPc' = "done"
    /\ UNCHANGED <<mpKind, mpData, fxVars, clVars, tfVars, ccVars>>

MapHeartbeat ==
    /\ mpPc = "ready" /\ mpKind = "heartbeat"
    /\ LET req == withKey(heartbeatToMonitorRequest(mpData), mpData.Key.v)
       IN /\ mpReq' = req
          /\ mpOut' = toHeartbeatMonitor(unmarshalMonitor(marshalMonitor(req)))
    /\ mpPc' = "done"
    /\ UNCHANGED <<mpKind, mpData, fxVars, clVars, tfVars, ccVars>>

MapList ==
    /\ mpPc = "ready" /\ mpKind = "list"
    /\ LET req == listToListRequest(mpData)
       IN /\ mpReq' = req
          /\ mpOut' = toNotificationList(unmarshalList(marshalList(req)))
    /\ mpPc' = "done"
    /\ UNCHANGED <<mpKind, mpData, fxVars, clVars, tfVars, ccVars>>

NextMap == MapHttp \/ MapHeartbeat \/ MapList

SpecMap == InitMap /\ [][NextMap]_vars

MonitorMapped == mpPc = "done" /\ mpKind \in {"http", "heartbeat"}

(***************************************************************************)
(* C6: for failure tolerance, grace seconds and schedule tolerance,        *)
(* mapping a declared model to wire form and back yields an absent field   *)
(* when the declared field was absent and zero when it was an explicit     *)
(* zero; absent and zero are never conflated.                              *)
(***************************************************************************)
C6_OptionalNumericRoundTrip ==
    MonitorMapped =>
       /\ mpOut.FailureTolerance = mpData.FailureTolerance
       /\ mpOut.GraceSeconds = mpData.GraceSeconds
       /\ mpOut.ScheduleTolerance = mpData.ScheduleTolerance

(***************************************************************************)
(* The remote service, seen through c.client.Do.  It holds the objects it  *)
(* was sent, each under its collection and key, and answers one request    *)
(* with one response chosen by `r`: a transport failure, a status, a body  *)
(* that cannot be read or decoded, and the order it lists arrays in.       *)
(* Names and keys of notification lists are sequences of characters (the   *)
(* client lower-cases and pattern-matches them); monitor keys are opaque.  *)
(***************************************************************************)
MaxObjects == 1

Monitors == "/api/monitors"

Templates == "/v1/templates"

StatusOK == 200

StatusCreated == 201

StatusNoContent == 204

Statuses == {200, 201, 204, 300, 404}

MonitorKeys == {"k1", "k2"}

NoDoc == <<>>

\* Response bodies: a JSON document, or text that is not the expected JSON.
DocBody(d) == [k |-> "doc", doc |-> d]

TextBody == [k |-> "text", doc |-> NoDoc]

Reverse(s) == [i \in 1..Len(s) |-> s[Len(s) + 1 - i]]

flipArr(j, on) == IF on THEN [j EXCEPT !.elems = Reverse(@)] ELSE j

\* The stored document with the arrays named by `f` listed in reverse.
flipMonitor(d, f) ==
    [d EXCEPT
       !.notify = flipArr(@, f \in {"all", "notify"}),
       !.tags = flipArr(@, f \in {"all", "tags"}),
       !.environments = flipArr(@, f \in {"all", "environments"}),
       !.assertions = flipArr(@, f \in {"all", "assertions"}),
       !.request = IF @.k = "value"
                   THEN [@ EXCEPT !.v.regions = flipArr(@, f \in {"all", "regions"})]
                   ELSE @]

flipList(d, f) ==
    [d EXCEPT
       !.emails = flipArr(@, f \in {"all", "emails"}),
       !.slack = flipArr(@, f \in {"all", "slack"}),
       !.pagerduty = flipArr(@, f \in {"all", "pagerduty"}),
       !.phones = flipArr(@, f \in {"all", "phones"}),
       !.webhook = flipArr(@, f \in {"all", "webhook"})]

flipDoc(coll, d, f) == IF coll = Monitors THEN flipMonitor(d, f) ELSE flipList(d, f)

\* The stored document under another identity key than the one it is stored
\* under (`on`: the service answers with a key it has changed).
rekeyDoc(coll, d, on) ==
    IF ~on THEN d
    ELSE IF coll = Monitors
         THEN [d EXCEPT !.key = [k |-> "value", v |-> IF @.v = "k1" THEN "k2" ELSE "k1"]]
    ELSE [d EXCEPT !.key = @ \o <<"x">>]

Stored(store, coll, key) == {o \in store : o.coll = coll /\ o.key = key}

Has(store, coll, key) == Stored(store, coll, key) # {}

DocOf(store, coll, key) ==
    IF Has(store, coll, key)
    THEN (CHOOSE o \in Stored(store, coll, key) : TRUE).doc ELSE NoDoc

FreeKeys(store) == {k \in MonitorKeys : ~Has(store, Monitors, k)}

\* The document with its key (`what` = "key") or its request section
\* ("request") left out, as a service may answer; lists have neither as an
\* optional part.
omitDoc(coll, d, what) ==
    IF coll # Monitors \/ what = "none" THEN d
    ELSE IF what = "key" THEN [d EXCEPT !.key = [k |-> "absent", v |-> ""]]
    ELSE [d EXCEPT !.request = [@ EXCEPT !.k = "absent"]]

\* The document a 201 answers a monitor POST with: only the identity key.
KeyOnlyDoc(key) == [marshalMonitor(ZeroMonitor) EXCEPT !.key = [k |-> "value", v |-> key]]

\* Whether the service can give answer r to request req in this state.
CanAnswer(store, req, r) ==
    \/ r.terr
    \/ CASE req.method = "POST" /\ r.status = StatusCreated ->
              /\ Cardinality(store) < MaxObjects
              /\ IF req.coll = Monitors THEN r.newKey \in FreeKeys(store)
                 ELSE ~Has(store, Templates, req.body.key)
         [] req.method \in {"GET", "PUT"} /\ r.status = StatusOK ->
              Has(store, req.coll, req.key)
         [] req.method = "DELETE" /\ r.status < 300 ->
              Has(store, req.coll, req.key)
         [] OTHER -> TRUE

\* The service's state after the request and the body of its response.
Serve(store, req, r) ==
    CASE r.terr \/ ~CanAnswer(store, req, r) -> [store |-> store, body |-> TextBody]
      [] req.method = "POST" /\ r.status = StatusCreated ->
           IF req.coll = Monitors
           THEN LET key == r.newKey IN
                [store |-> store \cup
                     {[coll |-> Monitors, key |-> key,
                       doc |-> [req.body EXCEPT !.key = [k |-> "value", v |-> key]]]},
                 body |-> DocBody(omitDoc(Monitors, KeyOnlyDoc(key), r.omit))]
           ELSE [store |-> store \cup
                     {[coll |-> Templates, key |-> req.body.key, doc |-> req.body]},
                 body |-> DocBody(req.body)]
      [] req.method = "GET" /\ r.status = StatusOK ->
           [store |-> store,
            body |-> DocBody(omitDoc(req.coll,
                                     rekeyDoc(req.coll,
                                              flipDoc(req.coll,
                                                      DocOf(store, req.coll, req.key),
                                                      r.flip),
                                              r.rekey),
                                     r.omit))]
      [] req.method = "PUT" /\ r.status = StatusOK ->
           LET doc == IF req.coll = Monitors
                      THEN [req.body EXCEPT !.key = [k |-> "value", v |-> req.key]]
                      ELSE [req.body EXCEPT !.key = req.key]
           IN [store |-> (store \ Stored(store, req.coll, req.key))
                           \cup {[coll |-> req.coll, key |-> req.key, doc |-> doc]},
               body |-> DocBody(doc)]
      [] req.method = "DELETE" /\ r.status < 300 ->
           [store |-> store \ Stored(store, req.coll, req.key), body |-> TextBody]
      [] OTHER -> [store |-> store, body |-> TextBody]

\* The answers a service can give: no answer, an answer whose body cannot
\* be read, a status with a body, a 2xx whose body is not the expected JSON.
\* flip: the order arrays are listed in; newKey: the key a created monitor gets;
\* rekey: the document of a GET carries another key than the one asked for;
\* omit: the part the document of the response leaves out.
TransportFailure ==
    [terr |-> TRUE, status |-> 0, readErr |-> FALSE, garbled |-> FALSE,
     flip |-> "none", newKey |-> "k1", rekey |-> FALSE,
     omit |-> "none"]

Answer(st, f) ==
    [terr |-> FALSE, status |-> st, readErr |-> FALSE, garbled |-> FALSE,
     flip |-> f, newKey |-> "k1", rekey |-> FALSE,
     omit |-> "none"]

Flips == {"none", "all"}

Answers ==
    {TransportFailure}
      \cup {Answer(st, "none") : st \in Statuses}
      \cup {Answer(StatusOK, f) : f \in Flips}
      \cup {[Answer(StatusCreated, "none") EXCEPT !.newKey = k] : k \in MonitorKeys}
      \cup {[Answer(st, "none") EXCEPT !.readErr = TRUE] : st \in {StatusOK, 404}}
      \cup {[Answer(st, "none") EXCEPT !.garbled = TRUE] : st \in {StatusOK, StatusCreated}}

(***************************************************************************)
(* pkg/cronitor.Client.  Each operation is a function of the service       *)
(* state, its argument and the service's answers; its outcome holds the    *)
(* error or value returned, the exchanges made in order, the service state *)
(* afterwards, the caller's struct as the call left it, and whether the    *)
(* service could give those answers.                                       *)
(***************************************************************************)
NoCode == 0 - 1

NoErr == [kind |-> "nil", code |-> NoCode, body |-> [k |-> "none", doc |-> NoDoc]]

\* An error value: its kind, and the status code and response body its
\* message embeds (NoCode / no body when the message has none).
Err(kind, code, body) == [kind |-> kind, code |-> code, body |-> body]

ErrPlain(kind) == Err(kind, NoCode, NoErr.body)

NoVal == <<>>

\* One exchange: the request sent, the answer, and the response body.
Entry(req, r, rbody) ==
    [method |-> req.method, coll |-> req.coll, key |-> req.key, body |-> req.body,
     terr |-> r.terr, status |-> r.status, readErr |-> r.readErr, rbody |-> rbody]

\* c.request: the request for method, path and body (nil body: NoDoc).
request(method, coll, key, body) ==
    [method |-> method, coll |-> coll, key |-> key, body |-> body]

\* The outcome of a call that made one exchange and stops with `err`/`val`.
After1(store, req, r, arg, err, val) ==
    [err |-> err, val |-> val, log |-> <<Entry(req, r, Serve(store, req, r).body)>>,
     store |-> Serve(store, req, r).store, arg |-> arg,
     valid |-> CanAnswer(store, req, r)]

\* The outcome of a call that stops before any exchange.
After0(store, arg, err) ==
    [err |-> err, val |-> NoVal, log |-> <<>>, store |-> store, arg |-> arg,
     valid |-> TRUE]

\* first, then the call `next` made on the state first left.
Then(first, next) ==
    [next EXCEPT !.log = first.log \o @, !.valid = first.valid /\ @,
                 !.arg = first.arg]

\* As setCreateDefaults, but never filling in notify.
setCreateDefaultsNoNotify(mon) ==
    [mon EXCEPT
       !.RealertInterval = IF @ = "" THEN "every 8 hours" ELSE @,
       !.Environments = IF SliceLen(@) = 0 THEN MkSlice(<<"production">>) ELSE @,
       !.Request = IF ~@.nil /\ @.v.TimeoutSeconds = 0
                   THEN [@ EXCEPT !.v.TimeoutSeconds = 5] ELSE @]

\* (c *Client) setCreateDefaults(mon *Monitor): writes through the pointer.
setCreateDefaults(mon) ==
    [mon EXCEPT
       !.RealertInterval = IF @ = "" THEN "every 8 hours" ELSE @,
       !.Notify = IF SliceLen(@) = 0 THEN MkSlice(<<"default">>) ELSE @,
       !.Environments = IF SliceLen(@) = 0 THEN MkSlice(<<"production">>) ELSE @,
       !.Request = IF ~@.nil /\ @.v.TimeoutSeconds = 0
                   THEN [@ EXCEPT !.v.TimeoutSeconds = 5] ELSE @]

\* GetMonitor taking every status below 300 for success.
GetMonitorAny2xx(store, id, r) ==
    LET req == request("GET", Monitors, id, NoDoc)
        body == Serve(store, req, r).body
    IN IF r.terr THEN After1(store, req, r, NoVal, ErrPlain("transport"), NoVal)
       ELSE IF r.status > 299
            THEN After1(store, req, r, NoVal,
                        Err("ErrFailedGetMonitor", r.status, NoErr.body), NoVal)
       ELSE IF r.readErr THEN After1(store, req, r, NoVal, ErrPlain("read"), NoVal)
       ELSE IF r.garbled \/ body.k # "doc"
            THEN After1(store, req, r, NoVal, ErrPlain("unmarshal"), NoVal)
       ELSE After1(store, req, r, NoVal, NoErr, unmarshalMonitor(body.doc))

\* As GetMonitor, but issuing the request once more after a transport error.
GetMonitorRetryOnce(store, id, r) ==
    LET req == request("GET", Monitors, id, NoDoc)
        body == Serve(store, req, r).body
        once == IF r.terr THEN After1(store, req, r, NoVal, ErrPlain("transport"), NoVal)
                ELSE IF r.status # StatusOK
                     THEN After1(store, req, r, NoVal,
                                 Err("ErrFailedGetMonitor", r.status, NoErr.body), NoVal)
                ELSE IF r.readErr
                     THEN After1(store, req, r, NoVal, ErrPlain("read"), NoVal)
                ELSE IF r.garbled \/ body.k # "doc"
                     THEN After1(store, req, r, NoVal, ErrPlain("unmarshal"), NoVal)
                ELSE After1(store, req, r, NoVal, NoErr, unmarshalMonitor(body.doc))
    IN IF r.terr THEN Then(once, once) ELSE once

\* (c *Client) GetMonitor(ctx, id)
GetMonitor(store, id, r) ==
    LET req == request("GET", Monitors, id, NoDoc)
        body == Serve(store, req, r).body
    IN IF r.terr THEN After1(store, req, r, NoVal, ErrPlain("transport"), NoVal)
       ELSE IF r.status # StatusOK
            THEN After1(store, req, r, NoVal,
                        Err("ErrFailedGetMonitor", r.status, NoErr.body), NoVal)
       ELSE IF r.readErr THEN After1(store, req, r, NoVal, ErrPlain("read"), NoVal)
       ELSE IF r.garbled \/ body.k # "doc"
            THEN After1(store, req, r, NoVal, ErrPlain("unmarshal"), NoVal)
       ELSE After1(store, req, r, NoVal, NoErr, unmarshalMonitor(body.doc))

\* The error CreateMonitor returns for a status other than 201.
createMonitorFailedNoBody(code, body) == Err("ErrFailedCreateMonitor", code, NoErr.body)

createMonitorFailed(code, body) == Err("ErrFailedCreateMonitor", code, body)

\* CreateMonitor returning what the POST was answered with, without the re-fetch.
CreateMonitorNoRefetch(store, monitor, r1, r2) ==
    LET m == setCreateDefaults(monitor)
        req == request("POST", Monitors, "", marshalMonitor(m))
        x == Serve(store, req, r1)
    IN IF r1.terr THEN After1(store, req, r1, m, ErrPlain("transport"), NoVal)
       ELSE IF r1.readErr THEN After1(store, req, r1, m, ErrPlain("read"), NoVal)
       ELSE IF r1.status # StatusCreated
            THEN After1(store, req, r1, m, createMonitorFailed(r1.status, x.body), NoVal)
       ELSE IF r1.garbled \/ x.body.k # "doc"
            THEN After1(store, req, r1, m, ErrPlain("unmarshal"), NoVal)
       ELSE After1(store, req, r1, m, NoErr, unmarshalMonitor(x.body.doc))

\* (c *Client) CreateMonitor(ctx, monitor)
CreateMonitor(store, monitor, r1, r2) ==
    LET m == setCreateDefaults(monitor)
        req == request("POST", Monitors, "", marshalMonitor(m))
        x == Serve(store, req, r1)
    IN IF r1.terr THEN After1(store, req, r1, m, ErrPlain("transport"), NoVal)
       ELSE IF r1.readErr THEN After1(store, req, r1, m, ErrPlain("read"), NoVal)
       ELSE IF r1.status # StatusCreated
            THEN After1(store, req, r1, m, createMonitorFailed(r1.status, x.body), NoVal)
       ELSE IF r1.garbled \/ x.body.k # "doc"
            THEN After1(store, req, r1, m, ErrPlain("unmarshal"), NoVal)
       ELSE LET mon == unmarshalMonitor(x.body.doc)
            IN IF mon.Key.nil
               THEN After1(store, req, r1, m, ErrPlain("panic"), NoVal)
               ELSE Then(After1(store, req, r1, m, NoErr, NoVal),
                         GetMonitor(x.store, mon.Key.v, r2))

\* UpdateMonitor returning what the PUT was answered with, without the re-fetch.
UpdateMonitorNoRefetch(store, monitor, r1, r2) ==
    IF monitor.Key.nil THEN After0(store, monitor, ErrPlain("empty key"))
    ELSE
    LET req == request("PUT", Monitors, monitor.Key.v, marshalMonitor(monitor))
        x == Serve(store, req, r1)
    IN IF r1.terr THEN After1(store, req, r1, monitor, ErrPlain("transport"), NoVal)
       ELSE IF r1.readErr THEN After1(store, req, r1, monitor, ErrPlain("read"), NoVal)
       ELSE IF r1.status # StatusOK
            THEN After1(store, req, r1, monitor,
                        Err("failed to update monitor", r1.status, x.body), NoVal)
       ELSE IF r1.garbled \/ x.body.k # "doc"
            THEN After1(store, req, r1, monitor, ErrPlain("unmarshal"), NoVal)
       ELSE After1(store, req, r1, monitor, NoErr, unmarshalMonitor(x.body.doc))

\* (c *Client) UpdateMonitor(ctx, monitor)
UpdateMonitor(store, monitor, r1, r2) ==
    IF monitor.Key.nil THEN After0(store, monitor, ErrPlain("empty key"))
    ELSE
    LET req == request("PUT", Monitors, monitor.Key.v, marshalMonitor(monitor))
        x == Serve(store, req, r1)
    IN IF r1.terr THEN After1(store, req, r1, monitor, ErrPlain("transport"), NoVal)
       ELSE IF r1.readErr THEN After1(store, req, r1, monitor, ErrPlain("read"), NoVal)
       ELSE IF r1.status # StatusOK
            THEN After1(store, req, r1, monitor,
                        Err("failed to update monitor", r1.status, x.body), NoVal)
       ELSE Then(After1(store, req, r1, monitor, NoErr, NoVal),
                 GetMonitor(x.store, monitor.Key.v, r2))

\* (c *Client) DeleteMonitor(ctx, id)
DeleteMonitor(store, id, r) ==
    LET req == request("DELETE", Monitors, id, NoDoc)
    IN IF r.terr THEN After1(store, req, r, NoVal, ErrPlain("transport"), NoVal)
       ELSE IF r.status > 299
            THEN After1(store, req, r, NoVal, ErrPlain("ErrFailedDeleteMonitor"), NoVal)
       ELSE After1(store, req, r, NoVal, NoErr, NoVal)

\* strings.ToLower, character by character.
UpperCase == <<"A", "B", "C", "D", "E", "F", "G", "H", "I", "J", "K", "L", "M",
               "N", "O", "P", "Q", "R", "S", "T", "U", "V", "W", "X", "Y", "Z">>

LowerCase == <<"a", "b", "c", "d", "e", "f", "g", "h", "i", "j", "k", "l", "m",
               "n", "o", "p", "q", "r", "s", "t", "u", "v", "w", "x", "y", "z">>

Digits == <<"0", "1", "2", "3", "4", "5", "6", "7", "8", "9">>

ToLowerChar(c) ==
    IF \E i \in 1..Len(UpperCase) : UpperCase[i] = c
    THEN LowerCase[CHOOSE i \in 1..Len(UpperCase) : UpperCase[i] = c]
    ELSE c

ToLower(str) == [i \in 1..Len(str) |-> ToLowerChar(str[i])]

\* hex.EncodeToString: two lower-case hex digits per byte.
HexDigits == Digits \o <<"a", "b", "c", "d", "e", "f">>

RECURSIVE EncodeToString(_)
EncodeToString(bytes) ==
    IF bytes = <<>> THEN <<>>
    ELSE <<HexDigits[(Head(bytes) \div 16) + 1], HexDigits[(Head(bytes) % 16) + 1]>>
           \o EncodeToString(Tail(bytes))

\* A regex that lets every key through.
listKeyRegexMatchAny(str) == TRUE

\* c.listKeyRegex.Match: ^[0-9a-z0-9-_]+$
listKeyRegexMatch(str) ==
    /\ Len(str) > 0
    /\ \A i \in 1..Len(str) :
          str[i] \in Range(Digits) \cup Range(LowerCase) \cup {"-", "_"}

\* The key CreateNotificationList derives: lower-cased name, "-", hex of the bytes.
deriveListKey(name, bytes) == ToLower(name) \o <<"-">> \o EncodeToString(bytes)

\* (c *Client) GetNotificationList(ctx, id)
GetNotificationList(store, id, r) ==
    LET req == request("GET", Templates, id, NoDoc)
        body == Serve(store, req, r).body
    IN IF r.terr THEN After1(store, req, r, NoVal, ErrPlain("transport"), NoVal)
       ELSE IF r.readErr THEN After1(store, req, r, NoVal, ErrPlain("read"), NoVal)
       ELSE IF r.status # StatusOK
            THEN After1(store, req, r, NoVal,
                        Err("failed to get notification list", r.status, body), NoVal)
       ELSE IF r.garbled \/ body.k # "doc"
            THEN After1(store, req, r, NoVal, ErrPlain("unmarshal"), NoVal)
       ELSE After1(store, req, r, NoVal, NoErr, unmarshalList(body.doc))

\* (c *Client) CreateNotificationList(ctx, list); rnd is what rand.Read gave.
CreateNotificationList(store, list, rnd, r1, r2) ==
    IF ~rnd.ok THEN After0(store, list, ErrPlain("random bytes"))
    ELSE
    LET l == [list EXCEPT !.Key = deriveListKey(list.Name, rnd.bytes)]
        req == request("POST", Templates, <<>>, marshalList(l))
        x == Serve(store, req, r1)
    IN IF ~listKeyRegexMatch(l.Key) THEN After0(store, l, ErrPlain("invalid key"))
       ELSE IF r1.terr THEN After1(store, req, r1, l, ErrPlain("transport"), NoVal)
       ELSE IF r1.readErr THEN After1(store, req, r1, l, ErrPlain("read"), NoVal)
       ELSE IF r1.status # StatusCreated
            THEN After1(store, req, r1, l,
                        Err("failed to create notification list", r1.status, x.body),
                        NoVal)
       ELSE Then(After1(store, req, r1, l, NoErr, NoVal),
                 GetNotificationList(x.store, l.Key, r2))

\* (c *Client) UpdateNotificationList(ctx, list)
UpdateNotificationList(store, list, r1, r2) ==
    LET req == request("PUT", Templates, list.Key, marshalList(list))
        x == Serve(store, req, r1)
    IN IF r1.terr THEN After1(store, req, r1, list, ErrPlain("transport"), NoVal)
       ELSE IF r1.readErr THEN After1(store, req, r1, list, ErrPlain("read"), NoVal)
       ELSE IF r1.status # StatusOK
            THEN After1(store, req, r1, list,
                        Err("failed to update notification list", r1.status, x.body),
                        NoVal)
       ELSE Then(After1(store, req, r1, list, NoErr, NoVal),
                 GetNotificationList(x.store, list.Key, r2))

\* DeleteNotificationList with the status test of DeleteMonitor.
DeleteNotificationListAny2xx(store, list, r) ==
    LET req == request("DELETE", Templates, list.Key, marshalList(list))
    IN IF r.terr THEN After1(store, req, r, list, ErrPlain("transport"), NoVal)
       ELSE IF r.status > 299
            THEN After1(store, req, r, list,
                        Err("failed to delete notification list", r.status, NoErr.body),
                        NoVal)
       ELSE After1(store, req, r, list, NoErr, NoVal)

\* (c *Client) DeleteNotificationList(ctx, list): the list is the request body.
DeleteNotificationList(store, list, r) ==
    LET req == request("DELETE", Templates, list.Key, marshalList(list))
    IN IF r.terr THEN After1(store, req, r, list, ErrPlain("transport"), NoVal)
       ELSE IF r.status # StatusNoContent
            THEN After1(store, req, r, list,
                        Err("failed to delete notification list", r.status, NoErr.body),
                        NoVal)
       ELSE After1(store, req, r, list, NoErr, NoVal)

(***************************************************************************)
(* The client called directly: any operation, on any argument of a small   *)
(* set of wire structs, against any answers the service can give.          *)
(***************************************************************************)
\* What is kept of an outcome once the call has returned.
Kept(o) == [err |-> o.err, val |-> o.val, log |-> o.log, arg |-> o.arg]

NoOutcome == [err |-> NoErr, val |-> NoVal, log |-> <<>>, arg |-> NoVal]

\* The answers an operation can meet on its k-th exchange: every answer when
\* it gets that far (o is its outcome should that exchange fail), one otherwise.
AnswersAt(k, o) == IF Len(o.log) < k THEN {TransportFailure} ELSE Answers

HttpRequest(timeout) ==
    PtrRequest([ZeroRequest EXCEPT !.URL = "https://example.com", !.Method = "GET",
                                   !.TimeoutSeconds = timeout,
                                   !.FollowRedirects = TRUE, !.VerifySsl = TRUE])

ClientMonitor(notify, envs, realert, req) ==
    [ZeroMonitor EXCEPT !.Name = "Example", !.Schedule = "every 5 minutes",
                        !.Notify = notify, !.Environments = envs,
                        !.RealertInterval = realert, !.Request = req,
                        !.Type = IF req.nil THEN "heartbeat" ELSE "check",
                        !.Platform = IF req.nil THEN "linux" ELSE "http"]

ClientMonitors ==
    {ClientMonitor(NilSlice, NilSlice, "", HttpRequest(0)),
     ClientMonitor(MkSlice(<<"ops", "dev">>), MkSlice(<<"staging">>), "every 1 hour",
                   HttpRequest(9)),
     ClientMonitor(MkSlice(<<>>), MkSlice(<<>>), "", NilRequest)}

ClientKeys == {NilString, PtrString("k1"), PtrString("k2")}

Demo == <<"d", "e", "m", "o">>

Ops1 == <<"O", "p", "s", "_", "1">>

DemoAlerts == <<"D", "e", "m", "o", " ", "A", "l", "e", "r", "t", "s">>

RandA == [ok |-> TRUE, bytes |-> <<26, 43, 60>>]

RandB == [ok |-> TRUE, bytes |-> <<0, 255, 16>>]

RandFailed == [ok |-> FALSE, bytes |-> <<>>]

ClientList(name, key, emails) ==
    [Name |-> name, Key |-> key,
     Notifications |-> [Emails |-> emails, Slack |-> NilSlice, Pagerduty |-> NilSlice,
                        Phones |-> NilSlice, Webhooks |-> MkSlice(<<>>)]]

TwoEmails == MkSlice(<<"a@x.io", "b@x.io">>)

\* Arguments of CreateNotificationList: the list and what rand.Read gives.
ListCreates ==
    {<<ClientList(Demo, <<>>, TwoEmails), RandA>>,
     <<ClientList(Demo, <<>>, NilSlice), RandB>>,
     <<ClientList(Ops1, <<>>, NilSlice), RandA>>,
     <<ClientList(DemoAlerts, <<>>, NilSlice), RandA>>,
     <<ClientList(Demo, <<>>, NilSlice), RandFailed>>}

ListKeys == {<<>>, deriveListKey(Demo, RandA.bytes), deriveListKey(Ops1, RandA.bytes)}

ListUpdates ==
    {ClientList(Demo, k, e) : k \in ListKeys, e \in {NilSlice, TwoEmails}}

InitClient ==
    /\ resKind \in {"monitor", "list"}
    /\ svc = {}
    /\ lastOp = "none"
    /\ lastArg = <<>>
    /\ lastOut = NoOutcome
    /\ tfState = <<>>
    /\ declared = <<>>
    /\ FixIdle
    /\ MapIdle
    /\ ConcIdle

\* The call has returned `o`.
Returned(name, a, o) ==
    /\ o.valid
    /\ svc' = o.store
    /\ lastOp' = name
    /\ lastArg' = a
    /\ lastOut' = Kept(o)
    /\ UNCHANGED <<resKind, tfVars, fxVars, mpVars, ccVars>>

ClGetMonitor ==
    /\ resKind = "monitor"
    /\ \E id \in {"k1", "k2"}, r \in Answers :
          Returned("GetMonitor", id, GetMonitor(svc, id, r))

ClCreateMonitor ==
    /\ resKind = "monitor"
    /\ \E m \in ClientMonitors, r1 \in Answers :
          \E r2 \in AnswersAt(2, CreateMonitor(svc, m, r1, TransportFailure)) :
             Returned("CreateMonitor", m, CreateMonitor(svc, m, r1, r2))

ClUpdateMonitor ==
    /\ resKind = "monitor"
    /\ \E m \in ClientMonitors, k \in ClientKeys :
          LET a == [m EXCEPT !.Key = k] IN
          \E r1 \in AnswersAt(1, UpdateMonitor(svc, a, TransportFailure, TransportFailure)) :
            \E r2 \in AnswersAt(2, UpdateMonitor(svc, a, r1, TransportFailure)) :
               Returned("UpdateMonitor", a, UpdateMonitor(svc, a, r1, r2))

ClDeleteMonitor ==
    /\ resKind = "monitor"
    /\ \E id \in {"k1", "k2"}, r \in Answers :
          Returned("DeleteMonitor", id, DeleteMonitor(svc, id, r))

ClGetNotificationList ==
    /\ resKind = "list"
    /\ \E id \in ListKeys, r \in Answers :
          Returned("GetNotificationList", id, GetNotificationList(svc, id, r))

ClCreateNotificationList ==
    /\ resKind = "list"
    /\ \E c \in ListCreates :
          LET l == c[1]
              rnd == c[2] IN
          \E r1 \in AnswersAt(1, CreateNotificationList(svc, l, rnd, TransportFailure,
                                                        TransportFailure)) :
            \E r2 \in AnswersAt(2, CreateNotificationList(svc, l, rnd, r1,
                                                          TransportFailure)) :
               Returned("CreateNotificationList", [list |-> l, rnd |-> rnd],
                        CreateNotificationList(svc, l, rnd, r1, r2))

ClUpdateNotificationList ==
    /\ resKind = "list"
    /\ \E l \in ListUpdates, r1 \in Answers :
          \E r2 \in AnswersAt(2, UpdateNotificationList(svc, l, r1, TransportFailure)) :
             Returned("UpdateNotificationList", l, UpdateNotificationList(svc, l, r1, r2))

ClDeleteNotificationList ==
    /\ resKind = "list"
    /\ \E k \in ListKeys, r \in Answers :
          LET l == ClientList(Demo, k, NilSlice)
          IN Returned("DeleteNotificationList", l, DeleteNotificationList(svc, l, r))

NextClient ==
    \/ ClGetMonitor \/ ClCreateMonitor \/ ClUpdateMonitor \/ ClDeleteMonitor
    \/ ClGetNotificationList \/ ClCreateNotificationList
    \/ ClUpdateNotificationList \/ ClDeleteNotificationList

SpecClient == InitClient /\ [][NextClient]_vars

\* The exchanges of the last operation.
Log == lastOut.log

\* The array a slice is sent as in a monitor body.
SentAs(s) == marshalSlice(s, FALSE)

(***************************************************************************)
(* C7: CreateMonitor called with no notify, no environments and no realert *)
(* interval sends a POST whose body has notify = ["default"],              *)
(* environments = ["production"], realert_interval = "every 8 hours";      *)
(* fields the caller set to non-empty values are sent as given.            *)
(***************************************************************************)
C7_CreateDefaultsInPost ==
    lastOp = "CreateMonitor" =>
       /\ Len(Log) >= 1
       /\ Log[1].method = "POST" /\ Log[1].coll = Monitors
       /\ Log[1].body.notify =
             IF SliceLen(lastArg.Notify) = 0
             THEN [k |-> "array", elems |-> <<"default">>] ELSE SentAs(lastArg.Notify)
       /\ Log[1].body.environments =
             IF SliceLen(lastArg.Environments) = 0
             THEN [k |-> "array", elems |-> <<"production">>]
             ELSE SentAs(lastArg.Environments)
       /\ Log[1].body.realert_interval =
             IF lastArg.RealertInterval = "" THEN "every 8 hours"
             ELSE lastArg.RealertInterval

C7_Witness ==
    /\ lastOp = "CreateMonitor"
    /\ lastArg.Notify = NilSlice /\ lastArg.Environments = NilSlice
    /\ lastArg.RealertInterval = ""
    /\ Log[1].body.notify.elems = <<"default">>
    /\ Log[1].body.environments.elems = <<"production">>
    /\ Log[1].body.realert_interval = "every 8 hours"

IsCreate == lastOp \in {"CreateMonitor", "CreateNotificationList"}

CollOf(o) == IF o = "CreateMonitor" THEN Monitors ELSE Templates

(***************************************************************************)
(* C9: a successful create is exactly the ordered pair POST /<collection>  *)
(* answered 201, then GET /<collection>/<key> with the key taken from the  *)
(* create response (monitors) or the derived key (notification lists);     *)
(* the value returned is what the GET was answered with.                   *)
(***************************************************************************)
C9_CreateIsPostThenGet ==
    (IsCreate /\ lastOut.err = NoErr) =>
       /\ Len(Log) = 2
       /\ Log[1].method = "POST" /\ Log[1].coll = CollOf(lastOp)
       /\ ~Log[1].terr /\ Log[1].status = StatusCreated
       /\ Log[2].method = "GET" /\ Log[2].coll = CollOf(lastOp)
       /\ ~Log[2].terr /\ Log[2].status = StatusOK
       /\ Log[2].key = IF lastOp = "CreateMonitor" THEN Log[1].rbody.doc.key.v
                       ELSE deriveListKey(lastArg.list.Name, lastArg.rnd.bytes)
       /\ lastOut.val = IF lastOp = "CreateMonitor"
                        THEN unmarshalMonitor(Log[2].rbody.doc)
                        ELSE unmarshalList(Log[2].rbody.doc)

\* A monitor created under key k2, the GET answered with the arrays reversed.
C9_Witness ==
    /\ lastOp = "CreateMonitor" /\ lastOut.err = NoErr
    /\ Log[2].key = "k2"
    /\ lastOut.val.Key = PtrString("k2")
    /\ lastOut.val.Notify = MkSlice(<<"dev", "ops">>)

NoState == <<>>

NoDeclared == <<>>

ApiKey == "secret"

\* fmt.Sprintf("https://cronitor.link/p/%s/%s", r.client.ApiKey, monitor.Key)
telemetryUrl(apiKey, key) == "https://cronitor.link/p/" \o apiKey \o "/" \o key

\* fixSliceOrder(declared, &observed): the callers pass the address of a field.
fixed(correct, incorrect) == fixSliceOrder(correct, PtrTo(incorrect)).val

\* The four fixSliceOrder calls of HttpMonitorResource.Read / Update.
fixHttp(state, monitor) ==
    [monitor EXCEPT
       !.Assertions = fixed(state.Assertions, @),
       !.Environments = fixed(state.Environments, @),
       !.Tags = fixed(state.Tags, @),
       !.Request = [@ EXCEPT !.v.Regions = fixed(state.Request.v.Regions, @)]]

\* The three fixSliceOrder calls of HeartbeatMonitorResource.Read / Update.
fixHeartbeat(state, monitor) ==
    [monitor EXCEPT
       !.Assertions = fixed(state.Assertions, @),
       !.Environments = fixed(state.Environments, @),
       !.Tags = fixed(state.Tags, @)]

\* The five fixSliceOrder calls of NotificationListResource.Read / Update.
fixList(state, list) ==
    [list EXCEPT
       !.Notifications =
          [Emails |-> fixed(state.Notifications.Emails, @.Emails),
           Slack |-> fixed(state.Notifications.Slack, @.Slack),
           Pagerduty |-> fixed(state.Notifications.Pagerduty, @.Pagerduty),
           Phones |-> fixed(state.Notifications.Phones, @.Phones),
           Webhooks |-> fixed(state.Notifications.Webhooks, @.Webhooks)]]

\* toHeartbeatMonitor(monitor) with the telemetry URL set on it.
\* As heartbeatState, but leaving the telemetry URL as the mapper left it.
heartbeatStateNoTelemetry(monitor) == toHeartbeatMonitor(monitor)

heartbeatState(monitor) ==
    [toHeartbeatMonitor(monitor) EXCEPT
       !.TelemetryUrl = StringValue(telemetryUrl(ApiKey, monitor.Key.v))]

\* Plans: what the framework hands Create and Update, schema defaults applied.
HttpBase ==
    [ZeroModel EXCEPT
       !.Name = StringValue("Example"),
       !.Url = StringValue("https://example.com"),
       !.Method = StringValue("GET"),
       !.Schedule = StringValue("every 5 minutes"),
       !.Disabled = BoolValue(FALSE), !.Paused = BoolValue(FALSE),
       !.FailureTolerance = Int32Value(0), !.GraceSeconds = Int32Value(0),
       !.ScheduleTolerance = Int32Value(0),
       !.RealertInterval = StringValue("every 8 hours"),
       !.TimeoutSeconds = Int32Value(5),
       !.FollowRedirects = BoolValue(TRUE), !.VerifySsl = BoolValue(TRUE),
       !.Notify = ListValue(<<"default">>),
       !.Environments = ListValue(<<"production">>)]

HttpPlans ==
    {HttpBase,
     [HttpBase EXCEPT !.Tags = ListValue(<<"web", "prod">>),
                      !.Assertions = ListValue(<<"response.code = 200",
                                                 "response.time < 2s">>),
                      !.Regions = ListValue(<<"us-east-1", "eu-west-1">>),
                      !.Environments = ListValue(<<"staging", "production">>)],
     [HttpBase EXCEPT !.Notify = ListValue(<<"ops", "dev">>)],
     [HttpBase EXCEPT !.Paused = BoolValue(TRUE)],
     [HttpBase EXCEPT !.RealertInterval = StringValue("every 1 hour")],
     [HttpBase EXCEPT !.Body = StringValue("payload")],
     [HttpBase EXCEPT !.Notify = ListValue(<<>>), !.Environments = ListValue(<<>>),
                      !.RealertInterval = StringValue("")]}

HeartbeatBase ==
    [ZeroModel EXCEPT
       !.Name = StringValue("Nightly"),
       !.Schedule = StringValue("every 1 day"),
       !.Disabled = BoolValue(FALSE), !.Paused = BoolValue(FALSE),
       !.GraceSeconds = Int32Value(0),
       !.RealertInterval = StringValue("every 8 hours"),
       !.Notify = ListValue(<<"default">>),
       !.Environments = ListValue(<<"production">>)]

HeartbeatExplicit ==
    [HeartbeatBase EXCEPT !.FailureTolerance = Int32Value(0),
                          !.ScheduleTolerance = Int32Value(0)]

HeartbeatPlans ==
    {HeartbeatBase,
     HeartbeatExplicit,
     [HeartbeatExplicit EXCEPT !.Tags = ListValue(<<"batch", "prod">>),
                               !.Environments = ListValue(<<"staging", "production">>)],
     [HeartbeatExplicit EXCEPT !.Notify = ListValue(<<"ops", "dev">>)],
     [HeartbeatExplicit EXCEPT !.Notify = ListValue(<<>>),
                               !.RealertInterval = StringValue("")]}

\* The key of a notification list plan before Create: unknown, read as "".
NoListKey == [null |-> TRUE, v |-> <<>>]

ListPlan(name, emails, slack) ==
    [Name |-> StringValue(name), Key |-> NoListKey,
     Emails |-> emails, Slack |-> slack, Pagerduty |-> ListNull,
     Phones |-> ListNull, Webhooks |-> ListNull]

ListPlans ==
    {ListPlan(Demo, ListValue(TwoEmails.elems), ListNull),
     ListPlan(Demo, ListValue(TwoEmails.elems), ListValue(<<"#ops", "#dev">>)),
     ListPlan(Demo, ListValue(<<>>), ListNull),
     ListPlan(Ops1, ListValue(TwoEmails.elems), ListNull),
     ListPlan(DemoAlerts, ListValue(TwoEmails.elems), ListNull)}

\* The answers the service gives the resources' requests, by method.
HandlerAnswers(method) ==
    CASE method = "GET" ->
           {TransportFailure, Answer(StatusOK, "none"), Answer(StatusOK, "all"),
            [Answer(StatusOK, "none") EXCEPT !.rekey = TRUE],
            [Answer(StatusOK, "none") EXCEPT !.garbled = TRUE],
            [Answer(StatusOK, "none") EXCEPT !.omit = "request"], Answer(404, "none")}
      [] method = "POST" ->
           {TransportFailure, Answer(StatusCreated, "none"),
            [Answer(StatusCreated, "none") EXCEPT !.omit = "key"], Answer(404, "none")}
      [] method = "PUT" ->
           {TransportFailure, Answer(StatusOK, "none"), Answer(404, "none")}
      [] OTHER ->
           {TransportFailure, Answer(StatusOK, "none"), Answer(StatusNoContent, "none"),
            Answer(404, "none")}

\* The answers to the k-th exchange of a call, when it gets that far (o is
\* its outcome should that exchange fail).
HandlerAnswersAt(k, o, method) ==
    IF Len(o.log) < k THEN {TransportFailure} ELSE HandlerAnswers(method)

Init ==
    /\ resKind \in {"http", "heartbeat", "list"}
    /\ svc = {}
    /\ lastOp = "none"
    /\ lastArg = <<>>
    /\ lastOut = NoOutcome
    /\ tfState = NoState
    /\ declared = NoDeclared
    /\ FixIdle
    /\ MapIdle
    /\ ConcIdle

\* A handler has returned: the client call's outcome `o` (with `err` in
\* place of its error when the handler itself failed), the state and the
\* declared spec it leaves.
Handled(name, plan, o, err, state, decl) ==
    /\ o.valid
    /\ svc' = o.store
    /\ lastOp' = name
    /\ lastArg' = plan
    /\ lastOut' = [Kept(o) EXCEPT !.err = err]
    /\ tfState' = state
    /\ declared' = IF state # NoState /\ tfState # NoState /\ state.Key # tfState.Key
                   THEN NoDeclared ELSE decl
    /\ UNCHANGED <<resKind, fxVars, mpVars, ccVars>>

\* What is known of the service once a call that failed has returned.
AfterFailure(o) == IF o.store = svc THEN declared ELSE NoDeclared

\* Create of both monitor resources: the plan is saved with the key set.
MonitorCreated(plan, o, saved) ==
    IF o.err # NoErr THEN Handled("Create", plan, o, o.err, tfState, AfterFailure(o))
    ELSE IF o.val.Key.nil
         THEN Handled("Create", plan, o, ErrPlain("panic"), tfState, NoDeclared)
    ELSE Handled("Create", plan, o, NoErr, saved, saved)

HttpCreate ==
    /\ resKind = "http" /\ tfState = NoState
    /\ \E plan \in HttpPlans, r1 \in HandlerAnswers("POST") :
          LET req == httpToMonitorRequest(plan) IN
          \E r2 \in HandlerAnswersAt(2, CreateMonitor(svc, req, r1, TransportFailure), "GET") :
             LET o == CreateMonitor(svc, req, r1, r2)
             IN MonitorCreated(plan, o, [plan EXCEPT !.Key = StringValue(o.val.Key.v)])

HeartbeatCreate ==
    /\ resKind = "heartbeat" /\ tfState = NoState
    /\ \E plan \in HeartbeatPlans, r1 \in HandlerAnswers("POST") :
          LET req == heartbeatToMonitorRequest(plan) IN
          \E r2 \in HandlerAnswersAt(2, CreateMonitor(svc, req, r1, TransportFailure), "GET") :
             LET o == CreateMonitor(svc, req, r1, r2)
             IN MonitorCreated(plan, o,
                   [plan EXCEPT
                      !.Key = StringValue(o.val.Key.v),
                      !.TelemetryUrl = StringValue(telemetryUrl(ApiKey, o.val.Key.v))])

\* Read of a resource: mapped is the state to save for the value `o` returned.
WasRead(o, panics, mapped) ==
    IF o.err # NoErr THEN Handled("Read", tfState, o, o.err, tfState, declared)
    ELSE IF panics THEN Handled("Read", tfState, o, ErrPlain("panic"), tfState, declared)
    ELSE Handled("Read", tfState, o, NoErr, mapped, declared)

HttpRead ==
    /\ resKind = "http" /\ tfState # NoState
    /\ \E r \in HandlerAnswers("GET") :
          LET state == httpToMonitorRequest(tfState)
              o == GetMonitor(svc, tfState.Key.v, r)
          IN WasRead(o, toHttpMonitorPanics(o.val),
                     toHttpMonitor(fixHttp(state, o.val)))

HeartbeatRead ==
    /\ resKind = "heartbeat" /\ tfState # NoState
    /\ \E r \in HandlerAnswers("GET") :
          LET state == heartbeatToMonitorRequest(tfState)
              o == GetMonitor(svc, tfState.Key.v, r)
          IN WasRead(o, toHeartbeatMonitorPanics(o.val),
                     heartbeatState(fixHeartbeat(state, o.val)))

\* An update that records its plan even when the client returned an error.
WasUpdatedSavesOnError(plan, o, panics, mapped, decl) ==
    IF o.err # NoErr THEN Handled("Update", plan, o, o.err, plan, NoDeclared)
    ELSE IF panics
         THEN Handled("Update", plan, o, ErrPlain("panic"), tfState, NoDeclared)
    ELSE Handled("Update", plan, o, NoErr, mapped, decl)

\* Update of a resource: mapped is the state to save, decl the plan with
\* the computed attributes the state already holds.
WasUpdated(plan, o, panics, mapped, decl) ==
    IF o.err # NoErr THEN Handled("Update", plan, o, o.err, tfState, AfterFailure(o))
    ELSE IF panics
         THEN Handled("Update", plan, o, ErrPlain("panic"), tfState, NoDeclared)
    ELSE Handled("Update", plan, o, NoErr, mapped, decl)

HttpUpdate ==
    /\ resKind = "http" /\ tfState # NoState
    /\ \E plan \in HttpPlans, r1 \in HandlerAnswers("PUT") :
          LET upd == withKey(httpToMonitorRequest(plan), tfState.Key.v) IN
          \E r2 \in HandlerAnswersAt(2, UpdateMonitor(svc, upd, r1, TransportFailure), "GET") :
             LET o == UpdateMonitor(svc, upd, r1, r2)
             IN WasUpdated(plan, o, toHttpMonitorPanics(o.val),
                           toHttpMonitor(fixHttp(upd, o.val)),
                           [plan EXCEPT !.Key = tfState.Key])

HeartbeatUpdate ==
    /\ resKind = "heartbeat" /\ tfState # NoState
    /\ \E plan \in HeartbeatPlans, r1 \in HandlerAnswers("PUT") :
          LET upd == withKey(heartbeatToMonitorRequest(plan), tfState.Key.v) IN
          \E r2 \in HandlerAnswersAt(2, UpdateMonitor(svc, upd, r1, TransportFailure), "GET") :
             LET o == UpdateMonitor(svc, upd, r1, r2)
             IN WasUpdated(plan, o, toHeartbeatMonitorPanics(o.val),
                           heartbeatState(fixHeartbeat(upd, o.val)),
                           [plan EXCEPT !.Key = tfState.Key,
                                        !.TelemetryUrl = tfState.TelemetryUrl])

\* Delete of a resource: the framework drops the state when Delete succeeds.
WasDeleted(o) ==
    IF o.err # NoErr THEN Handled("Delete", tfState, o, o.err, tfState, AfterFailure(o))
    ELSE Handled("Delete", tfState, o, NoErr, NoState, NoDeclared)

HttpDelete ==
    /\ resKind = "http" /\ tfState # NoState
    /\ \E r \in HandlerAnswers("DELETE") : WasDeleted(DeleteMonitor(svc, tfState.Key.v, r))

HeartbeatDelete ==
    /\ resKind = "heartbeat" /\ tfState # NoState
    /\ \E r \in HandlerAnswers("DELETE") : WasDeleted(DeleteMonitor(svc, tfState.Key.v, r))

\* NotificationListResource.Create: the state is the mapped result, as returned.
ListCreate ==
    /\ resKind = "list" /\ tfState = NoState
    /\ \E plan \in ListPlans, rnd \in {RandA, RandFailed} :
          LET req == listToListRequest(plan) IN
          \E r1 \in HandlerAnswersAt(1, CreateNotificationList(svc, req, rnd,
                                           TransportFailure, TransportFailure), "POST") :
            \E r2 \in HandlerAnswersAt(2, CreateNotificationList(svc, req, rnd, r1,
                                             TransportFailure), "GET") :
               LET o == CreateNotificationList(svc, req, rnd, r1, r2)
               IN IF o.err # NoErr
                  THEN Handled("Create", plan, o, o.err, tfState, AfterFailure(o))
                  ELSE Handled("Create", plan, o, NoErr, toNotificationList(o.val),
                               [plan EXCEPT !.Key = StringValue(o.arg.Key)])

ListRead ==
    /\ resKind = "list" /\ tfState # NoState
    /\ \E r \in HandlerAnswers("GET") :
          LET state == listToListRequest(tfState)
              o == GetNotificationList(svc, tfState.Key.v, r)
          IN WasRead(o, FALSE, toNotificationList(fixList(state, o.val)))

\* The plan of an update carries the key of the state (UseStateForUnknown).
ListUpdate ==
    /\ resKind = "list" /\ tfState # NoState
    /\ \E p \in ListPlans, r1 \in HandlerAnswers("PUT") :
          LET plan == [p EXCEPT !.Key = tfState.Key]
              upd == listToListRequest(plan) IN
          \E r2 \in HandlerAnswersAt(2, UpdateNotificationList(svc, upd, r1,
                                           TransportFailure), "GET") :
             LET o == UpdateNotificationList(svc, upd, r1, r2)
             IN WasUpdated(plan, o, FALSE,
                           toNotificationList(fixList(upd, o.val)), plan)

ListDelete ==
    /\ resKind = "list" /\ tfState # NoState
    /\ \E r \in HandlerAnswers("DELETE") :
          WasDeleted(DeleteNotificationList(svc, listToListRequest(tfState), r))

Next ==
    \/ HttpCreate \/ HttpRead \/ HttpUpdate \/ HttpDelete
    \/ HeartbeatCreate \/ HeartbeatRead \/ HeartbeatUpdate \/ HeartbeatDelete
    \/ ListCreate \/ ListRead \/ ListUpdate \/ ListDelete

Spec == Init /\ [][Next]_vars

\* The last handler was `name` and it returned without error.
Succeeded(name) == lastOp = name /\ lastOut.err = NoErr

(***************************************************************************)
(* C1: against a service that stores exactly what it is sent and may       *)
(* return every unordered collection in any order, after a successful      *)
(* Create or Update of an HTTP monitor, heartbeat monitor or notification  *)
(* list with declared spec D, every subsequent Read records a local state  *)
(* equal to D.                                                             *)
(***************************************************************************)
C1_ReadRecordsDeclared ==
    (Succeeded("Read") /\ declared # NoDeclared) => tfState = declared

\* A list or string attribute declared as cleared: null, or empty.
ClearedList(l) == l.null \/ l.elems = <<>>

ClearedString(str) == str.null \/ str.v = ""

(***************************************************************************)
(* C8: updating a monitor whose declared spec has notify, environments or  *)
(* realert interval explicitly cleared sends a PUT in which those fields   *)
(* are still cleared: the update path does not put the create-time         *)
(* defaults back.                                                          *)
(***************************************************************************)
C8_UpdateKeepsCleared ==
    (/\ resKind \in {"http", "heartbeat"} /\ lastOp = "Update" /\ Len(Log) >= 1)
    => /\ Log[1].method = "PUT"
       /\ ClearedList(lastArg.Notify) => Log[1].body.notify.elems = <<>>
       /\ ClearedList(lastArg.Environments) => Log[1].body.environments.elems = <<>>
       /\ ClearedString(lastArg.RealertInterval) => Log[1].body.realert_interval = ""

IsUpdate == lastOp \in {"UpdateMonitor", "UpdateNotificationList"}

\* The identity key of the argument of an update is absent or empty.
KeyUnset ==
    IF lastOp = "UpdateMonitor" THEN lastArg.Key.nil \/ lastArg.Key.v = ""
    ELSE lastArg.Key = <<>>

(***************************************************************************)
(* C11: for every resource kind, update called with a spec whose identity  *)
(* key is not set (absent or empty) fails immediately with a missing-key   *)
(* error and issues no HTTP request.                                       *)
(***************************************************************************)
C11_UpdateWithoutKeyFails ==
    (IsUpdate /\ KeyUnset) => (lastOut.err # NoErr /\ Log = <<>>)

\* The collection and the key an update addresses.
UpdateColl == IF lastOp = "UpdateMonitor" THEN Monitors ELSE Templates

UpdateKey == IF lastOp = "UpdateMonitor" THEN lastArg.Key.v ELSE lastArg.Key

(***************************************************************************)
(* C12: a successful update is exactly the ordered pair PUT                *)
(* /<collection>/<key> answered 200, then GET /<collection>/<key> for the  *)
(* same key, and the value returned is the GET's result; when the PUT is   *)
(* answered with any status other than 200, update returns an error and    *)
(* issues no GET.                                                          *)
(***************************************************************************)
C12_UpdateIsPutThenGet ==
    /\ (IsUpdate /\ lastOut.err = NoErr) =>
          /\ Len(Log) = 2
          /\ Log[1].method = "PUT" /\ Log[1].coll = UpdateColl
          /\ Log[1].key = UpdateKey
          /\ ~Log[1].terr /\ Log[1].status = StatusOK
          /\ Log[2].method = "GET" /\ Log[2].coll = UpdateColl
          /\ Log[2].key = UpdateKey
          /\ ~Log[2].terr /\ Log[2].status = StatusOK
          /\ lastOut.val = IF lastOp = "UpdateMonitor"
                           THEN unmarshalMonitor(Log[2].rbody.doc)
                           ELSE unmarshalList(Log[2].rbody.doc)
    /\ (IsUpdate /\ Len(Log) >= 1 /\ ~Log[1].terr /\ Log[1].status # StatusOK) =>
          /\ lastOut.err # NoErr
          /\ lastOut.val = NoVal
          /\ Len(Log) = 1

\* A monitor updated under key k1, the GET answered with the arrays reversed.
C12_Witness ==
    /\ lastOp = "UpdateMonitor" /\ lastOut.err = NoErr
    /\ Log[1].method = "PUT" /\ Log[2].method = "GET" /\ Log[2].key = "k1"
    /\ lastArg.Notify = MkSlice(<<"ops", "dev">>)
    /\ lastOut.val.Notify = MkSlice(<<"dev", "ops">>)

IsGet == lastOp \in {"GetMonitor", "GetNotificationList"}

DeleteAnswered(name) ==
    lastOp = name /\ Len(Log) = 1 /\ Log[1].method = "DELETE" /\ ~Log[1].terr

(***************************************************************************)
(* C14: DeleteMonitor succeeds for every response status below 300 and     *)
(* fails for every status of 300 or more; DeleteNotificationList succeeds  *)
(* only for status exactly 204 and fails for every other status,           *)
(* including 200.                                                          *)
(***************************************************************************)
C14_DeleteStatusAsymmetry ==
    /\ DeleteAnswered("DeleteMonitor") =>
          (lastOut.err = NoErr <=> Log[1].status < 300)
    /\ DeleteAnswered("DeleteNotificationList") =>
          (lastOut.err = NoErr <=> Log[1].status = StatusNoContent)

\* The service removed the list and answered 200: the delete fails.
C14_Witness ==
    /\ DeleteAnswered("DeleteNotificationList")
    /\ Log[1].status = StatusOK
    /\ Log[1].key = deriveListKey(Demo, RandA.bytes)
    /\ ~Has(svc, Templates, Log[1].key)
    /\ lastOut.err # NoErr

\* The characters a notification list key may hold.
LegalKeyChars ==
    {"0", "1", "2", "3", "4", "5", "6", "7", "8", "9", "-", "_",
     "a", "b", "c", "d", "e", "f", "g", "h", "i", "j", "k", "l", "m",
     "n", "o", "p", "q", "r", "s", "t", "u", "v", "w", "x", "y", "z"}

\* The last operation was CreateNotificationList and its random bytes were read.
ListCreateTried == lastOp = "CreateNotificationList" /\ lastArg.rnd.ok

\* The key that create derives from its argument.
DerivedKey == deriveListKey(lastArg.list.Name, lastArg.rnd.bytes)

(***************************************************************************)
(* C15: CreateNotificationList derives the key as lower-cased name + "-"   *)
(* + hex of 3 random bytes, and issues the POST if and only if the derived *)
(* key matches ^[0-9a-z0-9-_]+$: for a name with an illegal character it   *)
(* returns a validation error with zero transport invocations, and for a   *)
(* name free of illegal characters the POST carries that key.              *)
(***************************************************************************)
C15_ListKeyDerivedAndValidated ==
    ListCreateTried =>
       /\ Len(lastArg.rnd.bytes) = 3
       /\ Len(DerivedKey) = Len(lastArg.list.Name) + 7
       /\ lastOut.arg.Key = DerivedKey
       /\ IF \A i \in 1..Len(DerivedKey) : DerivedKey[i] \in LegalKeyChars
          THEN /\ Len(Log) >= 1
               /\ Log[1].method = "POST" /\ Log[1].coll = Templates
               /\ Log[1].body.key = DerivedKey
          ELSE /\ Log = <<>>
               /\ lastOut.err.kind = "invalid key"

\* "Demo Alerts" gives the key "demo alerts-1a2b3c", rejected before any request.
C15_Witness ==
    /\ ListCreateTried
    /\ lastArg.list.Name = DemoAlerts
    /\ lastOut.arg.Key = <<"d", "e", "m", "o", " ", "a", "l", "e", "r", "t", "s",
                           "-", "1", "a", "2", "b", "3", "c">>
    /\ Log = <<>> /\ lastOut.err.kind = "invalid key"

(***************************************************************************)
(* C16: the key recorded by a successful Create is immutable while the     *)
(* resource exists: whatever the service answers, every later Read, Update *)
(* and Delete addresses the service by the recorded key, and the recorded  *)
(* key stays the same from one recorded state to the next.                 *)
(***************************************************************************)
C16_KeyImmutable ==
    [][(tfState # NoState /\ lastOp' \in {"Read", "Update", "Delete"}) =>
          /\ \A i \in 1..Len(lastOut'.log) : lastOut'.log[i].key = tfState.Key.v
          /\ tfState' # NoState => tfState'.Key = tfState.Key]_vars

\* The last exchange of the operation just made was a GET answered 200
\* with a readable body: the canonical state was fetched.
Refetched(o) ==
    /\ o.log # <<>>
    /\ LET e == o.log[Len(o.log)]
       IN e.method = "GET" /\ ~e.terr /\ e.status = StatusOK /\ ~e.readErr

(***************************************************************************)
(* C17: no partial success.  A Create, Read, Update or Delete of any       *)
(* resource kind that ends in an error leaves the recorded state exactly   *)
(* as it was; the recorded state changes only in a step that ends without  *)
(* error and, unless it is a Delete, whose last exchange re-fetched the    *)
(* canonical state.                                                        *)
(***************************************************************************)
C17_NoPartialSuccess ==
    [][/\ lastOut'.err # NoErr => tfState' = tfState
       /\ tfState' # tfState =>
             /\ lastOut'.err = NoErr
             /\ lastOp' = "Delete" \/ Refetched(lastOut')]_vars

\* An update whose PUT was accepted and whose re-fetch failed: the resource
\* still has its recorded state.
C17_Witness ==
    /\ lastOp = "Update" /\ lastOut.err # NoErr
    /\ Len(Log) = 2 /\ Log[1].method = "PUT" /\ Log[1].status = StatusOK
    /\ tfState # NoState

\* The status an exchange must be answered with for its operation to go on:
\* 201 for a POST, 200 for a GET or a PUT, any status up to 299 for the
\* DELETE of a monitor and 204 for the DELETE of a notification list.
Expected(e) ==
    CASE e.method = "POST" -> e.status = StatusCreated
      [] e.method = "DELETE" /\ e.coll = Monitors -> e.status <= 299
      [] e.method = "DELETE" -> e.status = StatusNoContent
      [] OTHER -> e.status = StatusOK

IsDelete == lastOp \in {"DeleteMonitor", "DeleteNotificationList"}

(***************************************************************************)
(* C18: no retries.  A get or a delete issues at most one request; a       *)
(* create or an update issues at most two, the write and then one GET;     *)
(* and an exchange that failed in transport or was answered with an        *)
(* unexpected status is the last of its operation, which returns an error. *)
(***************************************************************************)
C18_NoRetries ==
    /\ (IsGet \/ IsDelete) => Len(Log) <= 1
    /\ (IsCreate \/ IsUpdate) =>
          /\ Len(Log) <= 2
          /\ Len(Log) = 2 => Log[1].method \in {"POST", "PUT"} /\ Log[2].method = "GET"
    /\ \A i \in 1..Len(Log) :
          (Log[i].terr \/ ~Expected(Log[i])) => (i = Len(Log) /\ lastOut.err # NoErr)

\* An update whose PUT was answered 404: no re-fetch follows.
C18_Witness ==
    /\ lastOp = "UpdateMonitor" /\ lastOut.err # NoErr
    /\ Len(Log) = 1 /\ Log[1].method = "PUT" /\ Log[1].status = 404

\* The unordered collections of the resource kind under management.
Collections ==
    CASE resKind = "http" -> {"Tags", "Notify", "Environments", "Assertions", "Regions"}
      [] resKind = "heartbeat" -> {"Tags", "Notify", "Environments", "Assertions"}
      [] OTHER -> {"Emails", "Slack", "Pagerduty", "Phones", "Webhooks"}

\* The JSON array under which a response document lists the collection f.
WireOf(doc, f) ==
    CASE f = "Tags" -> doc.tags
      [] f = "Notify" -> doc.notify
      [] f = "Environments" -> doc.environments
      [] f = "Assertions" -> doc.assertions
      [] f = "Regions" -> doc.request.v.regions
      [] f = "Emails" -> doc.emails
      [] f = "Slack" -> doc.slack
      [] f = "Pagerduty" -> doc.pagerduty
      [] f = "Phones" -> doc.phones
      [] OTHER -> doc.webhook

\* a and b hold the same elements, each as many times, in whatever order.
SameElements(a, b) ==
    /\ Len(a) = Len(b)
    /\ \A i \in DOMAIN a :
          Cardinality({j \in DOMAIN a : a[j] = a[i]})
             = Cardinality({j \in DOMAIN b : b[j] = a[i]})

\* The last response lists the declared elements of the collection f in
\* another order than declared.
AnsweredReordered(f) ==
    LET doc == Log[Len(Log)].rbody.doc
    IN /\ ~lastArg[f].null
       /\ WireOf(doc, f).k = "array"
       /\ SameElements(WireOf(doc, f).elems, lastArg[f].elems)
       /\ WireOf(doc, f).elems # lastArg[f].elems

(***************************************************************************)
(* C19: order normalization covers every unordered collection after every  *)
(* response.  After a successful Create, Read or Update, each collection   *)
(* (tags, notify, environments, assertions, regions of a monitor; emails,  *)
(* slack, pagerduty, phones, webhooks of a notification list) that the     *)
(* response lists with the declared elements in a different order is       *)
(* recorded in the declared order.                                         *)
(***************************************************************************)
C19_EveryCollectionNormalized ==
    (lastOp \in {"Create", "Read", "Update"} /\ lastOut.err = NoErr) =>
       \A f \in Collections : AnsweredReordered(f) => tfState[f] = lastArg[f]

\* Synced: the recorded state is the declared spec; Drifted: it is not.
Synced == tfState # NoState /\ tfState = declared

(***************************************************************************)
(* C20: per resource the lifecycle is Unmanaged -> Created -> {Synced <->  *)
(* Drifted} -> Deleted, and a successful update returns the resource to    *)
(* Synced: the state recorded after an update that the service carried out *)
(* and answered faithfully equals the declared spec.                       *)
(***************************************************************************)
C20_UpdateReturnsToSynced ==
    (lastOp = "Update" /\ lastOut.err = NoErr /\ declared # NoDeclared) => Synced

\* The names of the fields of a monitor on the wire (pkg/cronitor Monitor).
MonitorWireFields ==
    {"name", "assertions", "disabled", "failure_tolerance", "grace_seconds", "group",
     "key", "notify", "paused", "platform", "realert_interval", "request", "schedule",
     "schedule_tolerance", "tags", "timezone", "type", "environments"}

(***************************************************************************)
(* C21: after every successful Create, Read or Update of a heartbeat       *)
(* monitor the recorded telemetry URL is                                   *)
(* "https://cronitor.link/p/<API key>/<monitor key>" for the key recorded  *)
(* in the same state, and no request body sent to the service carries the  *)
(* telemetry URL: bodies have the wire fields only, none of them holding   *)
(* the URL.                                                                *)
(***************************************************************************)
C21_TelemetryUrlDerived ==
    (resKind = "heartbeat" /\ lastOp \in {"Create", "Read", "Update"}) =>
       /\ (lastOut.err = NoErr) =>
             tfState.TelemetryUrl =
                StringValue("https://cronitor.link/p/" \o ApiKey \o "/" \o tfState.Key.v)
       /\ \A i \in 1..Len(Log) :
             Log[i].body # NoDoc =>
                /\ DOMAIN Log[i].body = MonitorWireFields
                /\ \A k \in MonitorKeys :
                      telemetryUrl(ApiKey, k)
                         \notin {Log[i].body.name, Log[i].body.schedule,
                                 Log[i].body.realert_interval}

\* A heartbeat monitor read back under key k1.
C21_Witness ==
    /\ resKind = "heartbeat" /\ Succeeded("Read")
    /\ tfState.Key = StringValue("k1")
    /\ tfState.TelemetryUrl = StringValue("https://cronitor.link/p/secret/k1")

(***************************************************************************)
(* C22: no operation aborts the process.  Whatever the service answers,    *)
(* including a 201 to a create with no key in its document and a 200 with  *)
(* a monitor that has no request section, each Create, Read, Update and    *)
(* Delete returns a result or an error value: none ends in the panic of a  *)
(* nil dereference.                                                        *)
(***************************************************************************)
C22_NoAbort == lastOut.err # ErrPlain("panic")

\* The spec value the caller passed to the create just made.
CreateArg == IF lastOp = "CreateMonitor" THEN lastArg ELSE lastArg.list

(***************************************************************************)
(* C23: create applies defaulting and key derivation to a copy.  After     *)
(* CreateMonitor or CreateNotificationList returns, with a result or with  *)
(* an error, the spec value the caller passed in is field for field what   *)
(* it was before the call.                                                 *)
(***************************************************************************)
C23_CreateLeavesArgument == IsCreate => lastOut.arg = CreateArg

(***************************************************************************)
(* C25: fixSliceOrder never changes what the observed slice contains.  For *)
(* all declared and observed slices, repeated elements included, the       *)
(* observed slice after the call holds the same elements, each as many     *)
(* times, as before it.                                                    *)
(***************************************************************************)
C25_ContentsKept ==
    (fxPc = "done" /\ ~fxOut.panic) =>
       SameElements(fxOut.val.elems, fxIncorrect.val.elems)

(***************************************************************************)
(* C26: the declared-to-wire mappers keep the paused flag.  For every      *)
(* combination of declared disabled and paused, httpToMonitorRequest and   *)
(* heartbeatToMonitorRequest give a wire spec whose paused is the declared *)
(* paused and whose disabled is the declared disabled.                     *)
(***************************************************************************)
C26_PausedKept ==
    MonitorMapped =>
       /\ mpReq.Paused = mpData.Paused.v
       /\ mpReq.Disabled = mpData.Disabled.v

(***************************************************************************)
(* C27: the declared-to-wire mappers keep a declared realert interval.     *)
(* When the declared realert interval is a non-empty string R the wire     *)
(* spec has realert_interval = R; "every 8 hours" is put in only when none *)
(* was declared.                                                           *)
(***************************************************************************)
C27_RealertKept ==
    MonitorMapped =>
       IF ClearedString(mpData.RealertInterval)
       THEN mpReq.RealertInterval = "every 8 hours"
       ELSE mpReq.RealertInterval = mpData.RealertInterval.v

\* The last response is a monitor whose request section carries the
\* declared, non-empty body.
AnsweredWithDeclaredBody ==
    LET doc == Log[Len(Log)].rbody.doc
    IN /\ ~lastArg.Body.null /\ lastArg.Body.v # ""
       /\ doc.request.k = "value"
       /\ doc.request.v.body = lastArg.Body.v

(***************************************************************************)
(* C28: a declared request body survives a read.  For an HTTP monitor      *)
(* declared with a non-empty body B that the service stores and returns,   *)
(* the state recorded by a successful Read and by a successful Update has  *)
(* body = B.                                                               *)
(***************************************************************************)
C28_BodySurvivesRead ==
    (/\ resKind = "http" /\ lastOp \in {"Read", "Update"} /\ lastOut.err = NoErr
     /\ AnsweredWithDeclaredBody)
    => tfState.Body = lastArg.Body

\* The unordered collections of the model that was mapped.
MappedCollections ==
    CASE mpKind = "http" -> {"Tags", "Notify", "Environments", "Assertions", "Regions"}
      [] mpKind = "heartbeat" -> {"Tags", "Notify", "Environments"}
      [] OTHER -> {"Emails", "Slack", "Pagerduty", "Phones", "Webhooks"}

(***************************************************************************)
(* C29: the mappers keep empty and absent collections apart in both        *)
(* directions.  For every unordered collection field, a declared empty     *)
(* list mapped to wire form and back is an empty list, and a declared      *)
(* absent list mapped to wire form and back is absent.                     *)
(***************************************************************************)
C29_EmptyAndAbsentApart ==
    (mpPc = "done") =>
       \A f \in MappedCollections :
          /\ mpData[f].null => mpOut[f].null
          /\ (~mpData[f].null /\ mpData[f].elems = <<>>) => mpOut[f] = ListValue(<<>>)

(***************************************************************************)
(* C30: no orphaned resource.  In every reachable state each object the    *)
(* service holds (each was made by a create of this resource) is recorded  *)
(* in the local state with its key; in particular a create that returned   *)
(* an error has left nothing on the service.                               *)
(***************************************************************************)
C30_NoOrphan ==
    \A o \in svc : tfState # NoState /\ tfState.Key.v = o.key

(***************************************************************************)
(* Concurrent use of one shared *Client.  Two callers, each with a         *)
(* resource of its own, call the client's operations; a call that makes    *)
(* two exchanges (a write, then the re-fetch its last statement returns)   *)
(* can have exchanges of the other caller between the two.  The service is *)
(* the shared state; the client's fields are set by NewClient.             *)
(***************************************************************************)
Callers == {1, 2}

DefaultEndpoint == "https://cronitor.io"

ListKeyPattern == "^[0-9a-z0-9-_]+$"

\* NewClient(opts): the endpoint and the transport default when not given.
NewClient(endpoint, apiKey, transport) ==
    [endpoint |-> IF endpoint = "" THEN DefaultEndpoint ELSE endpoint,
     ApiKey |-> apiKey,
     client |-> IF transport = "" THEN "http.DefaultClient" ELSE transport,
     listKeyRegex |-> ListKeyPattern]

\* The client's fields after one of its methods has run with anything it
\* was given, but setting the API key aside for the call it makes.
afterMethodKeepsKey(c) == [c EXCEPT !.ApiKey = ""]

\* The client's fields after one of its methods has run: the methods read
\* c.endpoint, c.ApiKey, c.client and c.listKeyRegex and assign none of them.
afterMethod(c) == c

\* The name of the notification list of caller w.
ListName(w) == IF w = 1 THEN Demo ELSE Ops1

\* The resource of each caller: the monitors k1 and k2, or the notification
\* lists "demo-1a2b3c" and "ops_1-1a2b3c".
Mine(w) ==
    IF resKind = "monitor"
    THEN [coll |-> Monitors, key |-> IF w = 1 THEN "k1" ELSE "k2"]
    ELSE [coll |-> Templates, key |-> deriveListKey(ListName(w), RandA.bytes)]

ConcMonitors ==
    {ClientMonitor(NilSlice, NilSlice, "", HttpRequest(0)),
     ClientMonitor(MkSlice(<<"ops", "dev">>), MkSlice(<<"staging">>), "every 1 hour",
                   HttpRequest(9))}

\* The calls a caller makes on its own resource: the operation, the key it
\* passes to a get or a delete, the spec it passes to a create or an update.
CallsOf(w) ==
    IF Mine(w).coll = Monitors
    THEN {[op |-> o, key |-> Mine(w).key, spec |-> ZeroMonitor, rnd |-> RandA] :
            o \in {"GetMonitor", "DeleteMonitor"}}
         \cup {[op |-> "CreateMonitor", key |-> Mine(w).key, spec |-> m, rnd |-> RandA] :
                 m \in ConcMonitors}
         \cup {[op |-> "UpdateMonitor", key |-> Mine(w).key,
                spec |-> [m EXCEPT !.Key = PtrString(Mine(w).key)], rnd |-> RandA] :
                 m \in ConcMonitors}
    ELSE {[op |-> o, key |-> Mine(w).key,
           spec |-> ClientList(ListName(w), Mine(w).key, NilSlice), rnd |-> RandA] :
            o \in {"GetNotificationList", "DeleteNotificationList"}}
         \cup {[op |-> "CreateNotificationList", key |-> Mine(w).key,
                spec |-> ClientList(ListName(w), <<>>, e), rnd |-> RandA] :
                 e \in {NilSlice, TwoEmails}}
         \cup {[op |-> "UpdateNotificationList", key |-> Mine(w).key,
                spec |-> ClientList(ListName(w), Mine(w).key, e), rnd |-> RandA] :
                 e \in {NilSlice, TwoEmails}}

\* The answers the service gives a caller; a created monitor gets the
\* caller's key.
ConcAnswers(w) ==
    {TransportFailure, Answer(StatusOK, "none"), Answer(StatusNoContent, "none"),
     Answer(404, "none"),
     [Answer(StatusCreated, "none") EXCEPT
         !.newKey = IF Mine(w).coll = Monitors THEN Mine(w).key ELSE "k1"]}

\* The call c run alone, start to end, on the service state `store`.
Run(c, store, r1, r2) ==
    CASE c.op = "GetMonitor" -> GetMonitor(store, c.key, r1)
      [] c.op = "CreateMonitor" -> CreateMonitor(store, c.spec, r1, r2)
      [] c.op = "UpdateMonitor" -> UpdateMonitor(store, c.spec, r1, r2)
      [] c.op = "DeleteMonitor" -> DeleteMonitor(store, c.key, r1)
      [] c.op = "GetNotificationList" -> GetNotificationList(store, c.key, r1)
      [] c.op = "CreateNotificationList" ->
           CreateNotificationList(store, c.spec, c.rnd, r1, r2)
      [] c.op = "UpdateNotificationList" -> UpdateNotificationList(store, c.spec, r1, r2)
      [] OTHER -> DeleteNotificationList(store, c.spec, r1)

\* The re-fetch a create or an update returns with: a get of `key`.
Refetch(coll, store, key, r) ==
    IF coll = Monitors THEN GetMonitor(store, key, r)
    ELSE GetNotificationList(store, key, r)

NoCall ==
    [pc |-> "idle", call |-> <<>>, begin |-> {}, r1 |-> TransportFailure,
     r2 |-> TransportFailure, out |-> NoOutcome, crossed |-> FALSE]

\* The objects the service may hold at the start: the callers' resources.
HeldMonitor(key) ==
    [coll |-> Monitors, key |-> key,
     doc |-> [marshalMonitor(setCreateDefaults(ClientMonitor(NilSlice, NilSlice, "",
                                                            HttpRequest(0))))
                EXCEPT !.key = [k |-> "value", v |-> key]]]

HeldList(name, key) ==
    [coll |-> Templates, key |-> key, doc |-> marshalList(ClientList(name, key, TwoEmails))]

Held(w) ==
    IF Mine(w).coll = Monitors THEN HeldMonitor(Mine(w).key)
    ELSE HeldList(ListName(w), Mine(w).key)

InitConc ==
    /\ resKind \in {"monitor", "list"}
    /\ svc \in SUBSET {Held(w) : w \in Callers}
    /\ calls = [w \in Callers |-> NoCall]
    /\ client = NewClient("", ApiKey, "")
    /\ lastOp = "none"
    /\ lastArg = <<>>
    /\ lastOut = <<>>
    /\ tfState = <<>>
    /\ declared = <<>>
    /\ FixIdle
    /\ MapIdle

\* An exchange of caller w that changed the service falls between the two
\* exchanges of every call that is waiting to re-fetch.
Crossing(w, store) ==
    [v \in Callers |->
       IF v # w /\ calls[v].pc = "fetching" /\ store # svc
       THEN [calls[v] EXCEPT !.crossed = TRUE] ELSE calls[v]]

\* Caller w starts a call and makes its first exchange; the call returns
\* unless it goes on to the re-fetch.
Begin(w) ==
    /\ calls[w].pc = "idle"
    /\ \E c \in CallsOf(w), r1 \in ConcAnswers(w) :
          LET first == Run(c, svc, r1, TransportFailure) IN
          /\ first.valid
          /\ svc' = first.store
          /\ calls' = [Crossing(w, first.store) EXCEPT
                         ![w] = [pc |-> IF Len(first.log) = 2 THEN "fetching" ELSE "returned",
                                 call |-> c, begin |-> svc, r1 |-> r1,
                                 r2 |-> TransportFailure,
                                 out |-> Kept(first), crossed |-> FALSE]]
    /\ client' = afterMethod(client)
    /\ UNCHANGED <<resKind, lastOp, lastArg, lastOut, tfVars, fxVars, mpVars>>

\* Caller w makes the re-fetch of its call against the service as it is now.
Fetch(w) ==
    /\ calls[w].pc = "fetching"
    /\ \E r2 \in ConcAnswers(w) :
          LET sent == calls[w].out.log[1]
              g == Refetch(sent.coll, svc, calls[w].out.log[2].key, r2) IN
          /\ g.valid
          /\ svc' = g.store
          /\ calls' = [Crossing(w, g.store) EXCEPT
                         ![w] = [calls[w] EXCEPT
                                   !.pc = "returned", !.r2 = r2,
                                   !.out = [err |-> g.err, val |-> g.val,
                                            log |-> <<sent>> \o g.log,
                                            arg |-> calls[w].out.arg]]]
    /\ client' = afterMethod(client)
    /\ UNCHANGED <<resKind, lastOp, lastArg, lastOut, tfVars, fxVars, mpVars>>

\* The caller takes the result and is free to call again.
Return(w) ==
    /\ calls[w].pc = "returned"
    /\ calls' = [calls EXCEPT ![w] = NoCall]
    /\ UNCHANGED <<svc, client, resKind, lastOp, lastArg, lastOut, tfVars, fxVars, mpVars>>

NextConc == \E w \in Callers : Begin(w) \/ Fetch(w) \/ Return(w)

SpecConc == InitConc /\ [][NextConc]_vars

\* What the call of caller w gives when run alone from the service state it
\* started in, with the same answers.
Alone(w) == Run(calls[w].call, calls[w].begin, calls[w].r1, calls[w].r2)

====
